---- MODULE Spec2Model ----
(***************************************************************************)
(* A model of the signal-protocol Python binding (crest42/signal-protocol). *)
(* The binding's functions are thin wrappers: each definition below models  *)
(* one wrapper together with the libsignal_protocol call it makes.          *)
(*                                                                          *)
(* Cryptography is symbolic.  A key pair is a number (the private and the   *)
(* public half carry the same number), a Diffie-Hellman agreement is the    *)
(* unordered pair of the two numbers, a derived key is a term recording     *)
(* what it was derived from, a signature names the signing key and the      *)
(* signed content, and a ciphertext names the key it was made with.         *)
(* An optional value is a sequence of length 0 (None) or 1 (Some).          *)
(***************************************************************************)
EXTENDS Integers, Sequences, FiniteSets, TLC

VARIABLES
    store,      \* party -> the InMemSignalProtocolStore of that party
    held,       \* party -> the SessionRecord object the caller holds (Option)
    net,        \* the sealed-sender ciphertexts produced so far
    nextKey,    \* the next key pair the random generator hands out
    lastOp,     \* what the last call was given and what it returned
    used,       \* (party, prekey id, base key): the sessions a saved prekey has set up
    delivered,  \* the ciphertexts a sealed_sender_decrypt has decrypted
    sync,       \* party -> the stored record its held record was made from, and
                \* whether it has stored a record made from an older one
    rat,        \* the ratchet-initialisation scenario (SpecRatchet)
    cv,         \* the certificate-validation scenario (SpecCert)
    cx,         \* the message-object scenario (SpecCodec)
    grp,        \* the sender-key stores and messages of a group (SpecGroup)
    thr,        \* the threads calling into one store (SpecThreads)
    rec         \* a store and the SessionRecord object loaded from it (SpecRecord)

mainVars == <<store, held, net, nextKey, lastOp, used, delivered, sync>>
vars == <<store, held, net, nextKey, lastOp, used, delivered, sync, rat, cv, cx, grp, thr, rec>>

None == <<>>
Some(x) == <<x>>
IsSome(o) == Len(o) = 1
Get(o) == o[1]

(***************************************************************************)
(* Symbolic cryptography                                                   *)
(***************************************************************************)

\* PrivateKey::calculate_agreement: the same secret from either side.
Agree(ourPrivate, theirPublic) == {ourPrivate, theirPublic}

\* PrivateKey::calculate_signature over a message.
Sign(privateKey, message) == [by |-> privateKey, over |-> message]

\* PrivateKey::calculate_signature(message, csprng): an XEdDSA signature
\* is made with random bytes, which it carries.
SignRandom(privateKey, message, csprng) ==
    [by |-> privateKey, over |-> message, nonce |-> csprng]

\* PublicKey::verify_signature: the signer and what was signed, whatever
\* random bytes the signature was made with.
VerifySignature(publicKey, message, signature) ==
    signature.by = publicKey /\ signature.over = message

\* ratchet::derive_keys: the root key and the chain key of the shared secret.
DeriveRoot(secrets) == [role |-> "root", sec |-> secrets, dh |-> <<>>, idx |-> 0]
DeriveChain(secrets) == [role |-> "chain", sec |-> secrets, dh |-> <<>>, idx |-> 0]

\* RootKey::create_chain: one Diffie-Hellman ratchet step, giving the next
\* root key and a chain key at index 0.
CreateChainRoot(rootKey, theirRatchet, ourRatchet) ==
    [rootKey EXCEPT !.dh = Append(@, Agree(ourRatchet, theirRatchet))]
CreateChainChain(rootKey, theirRatchet, ourRatchet) ==
    [role |-> "chain", sec |-> rootKey.sec,
     dh |-> Append(rootKey.dh, Agree(ourRatchet, theirRatchet)), idx |-> 0]

\* A chain key stepping back to the index before it.
ChainKeyBack(chainKey) == [chainKey EXCEPT !.idx = @ - 1]

\* ChainKey::next_chain_key and ChainKey::message_keys.
NextChainKey(chainKey) == [chainKey EXCEPT !.idx = @ + 1]
MessageKeys(chainKey) == [chainKey EXCEPT !.role = "msg"]

(***************************************************************************)
(* Session state (libsignal_protocol::SessionState / SessionRecord)        *)
(***************************************************************************)

SessionVersion == 3

\* SessionState::new followed by the with_* builders.
NewSessionState(localIdentity, remoteIdentity, rootKey, baseKey) ==
    [version |-> SessionVersion,
     local_identity |-> localIdentity,
     remote_identity |-> remoteIdentity,
     root_key |-> rootKey,
     alice_base_key |-> baseKey,
     sender_chain |-> None,
     receiver_chains |-> <<>>,
     previous_counter |-> 0,
     pending_pre_key |-> None,
     local_registration_id |-> 0,
     remote_registration_id |-> 0]

WithSenderChain(state, ratchetKey, chainKey) ==
    [state EXCEPT !.sender_chain = Some([chain |-> chainKey,
                                         ratchet |-> ratchetKey])]

MaxReceiverChains == 5

\* SessionState::add_receiver_chain: the oldest chain is dropped past the maximum.
AddReceiverChain(state, theirRatchet, chainKey) ==
    LET added == Append(state.receiver_chains,
                        [chain |-> chainKey,
                         ratchet |-> theirRatchet,
                         skipped |-> <<>>])
    IN  [state EXCEPT !.receiver_chains =
            IF Len(added) > MaxReceiverChains THEN Tail(added) ELSE added]

\* SessionRecord::new_fresh and a record holding one current state.
NewFresh == [current |-> None, previous |-> <<>>]
RecordOf(state) == [current |-> Some(state), previous |-> <<>>]

(***************************************************************************)
(* ratchet.rs: the parameter objects and the two initialisations           *)
(***************************************************************************)

\* AliceSignalProtocolParameters::new.  The binding hands its fifth argument,
\* named their_one_time_pre_key, to the fifth parameter of the upstream
\* constructor, which is their_ratchet_key; the upstream one-time prekey is
\* only set by with_their_one_time_pre_key, which the binding never calls.
AliceParametersNew(ourIdentity, ourBase, theirIdentity, theirSigned, theirOneTime) ==
    [our_identity |-> ourIdentity, our_base |-> ourBase,
     their_identity |-> theirIdentity, their_signed_pre_key |-> theirSigned,
     their_one_time_pre_key |-> None,
     their_ratchet_key |-> theirOneTime]

\* BobSignalProtocolParameters::new (no Kyber prekey, no Kyber ciphertext).
BobParametersNew(ourIdentity, ourSigned, ourOneTime, ourRatchet, theirIdentity, theirBase) ==
    [our_identity |-> ourIdentity,
     their_identity |-> theirIdentity,
     our_signed_pre_key |-> ourSigned,
     our_one_time_pre_key |-> ourOneTime,
     our_ratchet_key |-> ourRatchet,
     their_base_key |-> theirBase]

\* The agreements Alice feeds to derive_keys.
AliceSecrets(p) ==
    <<Agree(p.our_identity, p.their_signed_pre_key),
      Agree(p.our_base, p.their_identity),
      Agree(p.our_base, p.their_signed_pre_key)>>
    \o (IF IsSome(p.their_one_time_pre_key)
        THEN <<Agree(p.our_base, Get(p.their_one_time_pre_key))>> ELSE <<>>)

\* A slip in Bob's agreements: the one with his one-time prekey left out.
BobSecretsWithoutOneTime(p) ==
    <<Agree(p.our_signed_pre_key, p.their_identity),
      Agree(p.our_identity, p.their_base_key),
      Agree(p.our_signed_pre_key, p.their_base_key)>>

\* The agreements Bob feeds to derive_keys.
BobSecrets(p) ==
    <<Agree(p.our_signed_pre_key, p.their_identity),
      Agree(p.our_identity, p.their_base_key),
      Agree(p.our_signed_pre_key, p.their_base_key)>>
    \o (IF IsSome(p.our_one_time_pre_key)
        THEN <<Agree(Get(p.our_one_time_pre_key), p.their_base_key)>> ELSE <<>>)

\* initialize_alice_session: the state holds the root key after one ratchet
\* step, a receiver chain for their ratchet key and a sender chain under a
\* fresh ratchet key.
InitializeAliceState(p, sendingRatchet) ==
    LET root == DeriveRoot(AliceSecrets(p))
        chain == DeriveChain(AliceSecrets(p))
        base == NewSessionState(p.our_identity, p.their_identity,
                    CreateChainRoot(root, p.their_ratchet_key, sendingRatchet),
                    p.our_base)
    IN  WithSenderChain(AddReceiverChain(base, p.their_ratchet_key, chain),
                        sendingRatchet,
                        CreateChainChain(root, p.their_ratchet_key, sendingRatchet))

\* initialize_bob_session giving Bob a receiver chain and no sender chain.
InitializeBobStateReceiving(p) ==
    AddReceiverChain(
        NewSessionState(p.our_identity, p.their_identity,
                        DeriveRoot(BobSecrets(p)), p.their_base_key),
        p.their_base_key, DeriveChain(BobSecrets(p)))

\* initialize_bob_session: the derived root key and a sender chain under Bob's
\* ratchet key; no receiver chain yet.
InitializeBobState(p) ==
    WithSenderChain(
        NewSessionState(p.our_identity, p.their_identity,
                        DeriveRoot(BobSecrets(p)), p.their_base_key),
        p.our_ratchet_key, DeriveChain(BobSecrets(p)))

(***************************************************************************)
(* state.rs: the SessionRecord accessors                                   *)
(***************************************************************************)

RECURSIVE FindChain(_, _)
FindChain(chains, ratchetKey) ==
    IF chains = <<>> THEN None
    ELSE IF Head(chains).ratchet = ratchetKey THEN Some(Head(chains))
    ELSE FindChain(Tail(chains), ratchetKey)

\* SessionRecord::has_sender_chain: whether there is a current state and it
\* has a sender chain (no record of the model holds a prekey old enough to
\* make its chain unusable).
HasSenderChain(record) ==
    IsSome(record.current) /\ IsSome(Get(record.current).sender_chain)

\* SessionRecord::get_receiver_chain_key: None without a current state or
\* without a chain for the sender's ratchet key.
GetReceiverChainKey(record, senderRatchet) ==
    IF ~IsSome(record.current) THEN None
    ELSE LET found == FindChain(Get(record.current).receiver_chains, senderRatchet)
         IN  IF IsSome(found) THEN Some(Get(found).chain) ELSE None

\* SessionRecord::get_sender_chain_key_bytes (its error is None here).
GetSenderChainKey(record) ==
    IF IsSome(record.current) /\ IsSome(Get(record.current).sender_chain)
    THEN Some(Get(Get(record.current).sender_chain).chain) ELSE None

\* The root key of the current state.
GetRootKey(record) ==
    IF IsSome(record.current) THEN Some(Get(record.current).root_key) ELSE None

(***************************************************************************)
(* storage.rs: InMemSignalProtocolStore                                    *)
(***************************************************************************)

Parties == {"A", "B"}
Other(p) == IF p = "A" THEN "B" ELSE "A"

\* The identity key pair and registration id each store is constructed with,
\* and an identity key that belongs to neither party.
IdentityOf == [A |-> 1, B |-> 2, stranger |-> 9]
RegistrationOf == [A |-> 101, B |-> 102]

PreKeyIds == {1}
SignedPreKeyIds == {1}

\* A string is the sequence of its characters.  The hexadecimal digits,
\* and a digit in lower case.
HexChars ==
    {"0", "1", "2", "3", "4", "5", "6", "7", "8", "9",
     "a", "b", "c", "d", "e", "f", "A", "B", "C", "D", "E", "F"}
LowerHex(c) ==
    IF c \notin {"A", "B", "C", "D", "E", "F"} THEN c
    ELSE CASE c = "A" -> "a" [] c = "B" -> "b" [] c = "C" -> "c"
           [] c = "D" -> "d" [] c = "E" -> "e" [] c = "F" -> "f"

\* Uuid::parse_str (uuid 1.x): 32 hexadecimal digits; or the hyphenated
\* form, 36 characters with hyphens after 8, 12, 16 and 20 digits, as it
\* is, in braces or after "urn:uuid:"; digits in either case.  The UUID is
\* its 32 digits in lower case; None is the error.
UuidParse(text) ==
    LET simple(t) ==
            IF \A i \in 1..32 : t[i] \in HexChars
            THEN Some([i \in 1..32 |-> LowerHex(t[i])]) ELSE None
        hyphenated(t) ==
            IF /\ t[9] = "-" /\ t[14] = "-" /\ t[19] = "-" /\ t[24] = "-"
               /\ Len(SelectSeq(t, LAMBDA c : c = "-")) = 4
            THEN simple(SelectSeq(t, LAMBDA c : c # "-")) ELSE None
    IN  IF Len(text) = 32 THEN simple(text)
        ELSE IF Len(text) = 36 THEN hyphenated(text)
        ELSE IF Len(text) = 38 /\ text[1] = "{" /\ text[38] = "}"
        THEN hyphenated(SubSeq(text, 2, 37))
        ELSE IF Len(text) = 45
                /\ SubSeq(text, 1, 9) = <<"u", "r", "n", ":", "u", "u", "i", "d", ":">>
        THEN hyphenated(SubSeq(text, 10, 45))
        ELSE None

\* Two UUIDs as a caller writes them.
UuidText1 ==
    <<"6", "7", "e", "5", "5", "0", "4", "4">> \o <<"-">> \o
    <<"1", "0", "b", "1">> \o <<"-">> \o
    <<"4", "2", "6", "f">> \o <<"-">> \o
    <<"9", "2", "4", "7">> \o <<"-">> \o
    <<"b", "b", "6", "8", "0", "e", "5", "f", "e", "0", "c", "8">>
UuidText2 ==
    <<"0", "e", "1", "f", "2", "a", "3", "b">> \o <<"-">> \o
    <<"4", "c", "5", "d">> \o <<"-">> \o
    <<"4", "e", "6", "f">> \o <<"-">> \o
    <<"8", "a", "9", "b">> \o <<"-">> \o
    <<"0", "c", "1", "d", "2", "e", "3", "f", "4", "a", "5", "b">>

\* A text in upper case and without its hyphens.
UpperText(text) ==
    [i \in 1..Len(text) |->
        CASE text[i] = "a" -> "A" [] text[i] = "b" -> "B" [] text[i] = "c" -> "C"
          [] text[i] = "d" -> "D" [] text[i] = "e" -> "E" [] text[i] = "f" -> "F"
          [] OTHER -> text[i]]
SimpleText(text) == SelectSeq(text, LAMBDA c : c # "-")

\* The distribution id strings a caller passes: a UUID in every form
\* parse_str reads (hyphenated in lower and in upper case, simple, braced,
\* urn), a second UUID, and strings that are no UUID: words, the empty
\* string, a digit that is not hexadecimal, braces around the simple form.
DistributionIdStrings ==
    { UuidText1, UpperText(UuidText1), SimpleText(UuidText1),
      <<"{">> \o UuidText1 \o <<"}">>,
      <<"u", "r", "n", ":", "u", "u", "i", "d", ":">> \o UuidText1,
      UuidText2,
      <<"n", "o", "t", "-", "a", "-", "u", "u", "i", "d">>, <<>>,
      [UuidText1 EXCEPT ![1] = "g"],
      <<"{">> \o SimpleText(UuidText1) \o <<"}">> }

\* The ids a store has room for, the sender-key distributions (parsed
\* UUIDs) and the names a sender key is stored under.
StoreKeyIds == {1, 2}
Uuids == {Get(UuidParse(UuidText1)), Get(UuidParse(UuidText2))}
SenderKeyNames == Parties \X Uuids

\* The key pairs the parties generate for their prekey records.
OneTimeKeyOf(p, id) == (IF p = "A" THEN 20 ELSE 30) + id
SignedKeyOf(p, id) == (IF p = "A" THEN 40 ELSE 50) + id

\* InMemSignalProtocolStore::new(key_pair, registration_id): every store empty.
StoreNew(p) ==
    [identity_key_pair |-> IdentityOf[p],
     registration_id |-> RegistrationOf[p],
     identities |-> [a \in Parties |-> None],
     sessions |-> [a \in Parties |-> None],
     pre_keys |-> [i \in StoreKeyIds |-> None],
     signed_pre_keys |-> [i \in StoreKeyIds |-> None],
     sender_keys |-> [n \in SenderKeyNames |-> None]]

\* get_identity_key_pair / get_local_registration_id
GetIdentityKeyPair(st) == st.identity_key_pair
GetLocalRegistrationId(st) == st.registration_id

\* IdentityKeyStore::is_trusted_identity: trust on first use, then only the
\* identity that is stored.
IsTrustedIdentity(st, address, identity) ==
    ~IsSome(st.identities[address]) \/ Get(st.identities[address]) = identity

\* save_identity answering true for every key that was not stored before.
SaveIdentityChangedOrNew(st, address, identity) ==
    st.identities[address] # Some(identity)

\* save_identity: the key is stored; true exactly when it replaces another key.
SaveIdentityChanged(st, address, identity) ==
    IsSome(st.identities[address]) /\ Get(st.identities[address]) # identity
SaveIdentityStore(st, address, identity) ==
    [st EXCEPT !.identities[address] = Some(identity)]

\* get_identity
GetIdentity(st, address) == st.identities[address]

\* load_session answering with a fresh record for every address.
LoadSessionFresh(st, address) == Some(NewFresh)

\* load_session: None when no session was stored for the address.
LoadSession(st, address) == st.sessions[address]

\* store_session
StoreSessionStore(st, address, record) ==
    [st EXCEPT !.sessions[address] = Some(record)]

\* get_pre_key: an error (None here) for an id that is not stored.
GetPreKey(st, id) == st.pre_keys[id]

\* save_pre_key
SavePreKeyStore(st, id, keyPair) == [st EXCEPT !.pre_keys[id] = Some(keyPair)]

\* remove_pre_key putting an entry where there was none.
RemovePreKeyStoreToggled(st, id) ==
    [st EXCEPT !.pre_keys[id] = IF IsSome(@) THEN None ELSE Some(id)]

\* remove_pre_key: removing an absent id is not an error.
RemovePreKeyStore(st, id) == [st EXCEPT !.pre_keys[id] = None]

\* get_signed_pre_key / save_signed_pre_key
GetSignedPreKey(st, id) == st.signed_pre_keys[id]
SaveSignedPreKeyStore(st, id, keyPair) ==
    [st EXCEPT !.signed_pre_keys[id] = Some(keyPair)]

\* SenderKeyStore::store_sender_key writing the record under every
\* distribution of the sender.
StoreSenderKeyStoreAnyId(st, sender, uuid, record) ==
    [st EXCEPT !.sender_keys = [n \in SenderKeyNames |->
                                  IF n[1] = sender THEN Some(record) ELSE @[n]]]

\* SenderKeyStore::store_sender_key / load_sender_key of the in-memory
\* store: a map keyed by (address, distribution id).
StoreSenderKeyStore(st, sender, uuid, record) ==
    [st EXCEPT !.sender_keys[<<sender, uuid>>] = Some(record)]
LoadSenderKeyStore(st, sender, uuid) == st.sender_keys[<<sender, uuid>>]

\* store_sender_key(sender, distribution_id, record): the unwrap of the
\* parse panics on a string that is no UUID, before the store is touched.
StoreSenderKeyCore(st, sender, distribution_id, record) ==
    LET uuid == UuidParse(distribution_id)
    IN  IF ~IsSome(uuid)
        THEN [store |-> st, record |-> None, status |-> "panic", kind |-> "PanicException"]
        ELSE [store |-> StoreSenderKeyStore(st, sender, Get(uuid), record),
              record |-> None, status |-> "ok", kind |-> "none"]

\* load_sender_key(sender, distribution_id): the same unwrap.
LoadSenderKeyCore(st, sender, distribution_id) ==
    LET uuid == UuidParse(distribution_id)
    IN  IF ~IsSome(uuid)
        THEN [store |-> st, record |-> None, status |-> "panic", kind |-> "PanicException"]
        ELSE [store |-> st,
              record |-> LoadSenderKeyStore(st, sender, Get(uuid)),
              status |-> "ok", kind |-> "none"]

(***************************************************************************)
(* What a call returns                                                     *)
(***************************************************************************)

\* kind is the libsignal error the call ended with ("none" on success) and
\* text the message of the exception the Python caller receives.
OpIdle ==
    [root |-> 0,
     base |-> None,
     record |-> None,
     text |-> "",
     distribution_id |-> <<>>,
     status |-> "ok",
     kind |-> "none",
     op |-> "none",
     party |-> "A",
     addr |-> "A",
     pre_key |-> None,
     ptext |-> None,
     cert |-> None,
     now |-> 0,
     msg_type |-> "none",
     sent |-> None,
     matching |-> FALSE,
     given |-> None,
     returned |-> None]

\* error.rs: SignalProtocolError::new_err(err) keeps the upstream error's text.
NewErr(kind) == kind

\* session.rs: both wrappers replace every upstream error by one fixed text.
PreKeyErr(kind) == "error processing prekey bundle"

(***************************************************************************)
(* The session cipher behind sealed_sender_encrypt / sealed_sender_decrypt *)
(***************************************************************************)

ArchivedStatesMaxLength == 40
MaxMessageKeys == 2000
MaxForwardJumps == 25000

\* The current state, if any, going to the front of the previous states,
\* none of them dropped.
ArchiveKeepingAll(record) ==
    IF ~IsSome(record.current) THEN record
    ELSE [current |-> None, previous |-> <<Get(record.current)>> \o record.previous]

\* SessionRecord::archive_current_state: the current state, if any, goes to
\* the front of the previous states, the oldest dropped past the maximum.
ArchiveCurrentState(record) ==
    IF ~IsSome(record.current) THEN record
    ELSE LET kept == IF Len(record.previous) >= ArchivedStatesMaxLength
                     THEN SubSeq(record.previous, 1, Len(record.previous) - 1)
                     ELSE record.previous
         IN  [current |-> None, previous |-> <<Get(record.current)>> \o kept]

\* SessionRecord::promote_state
PromoteState(record, state) ==
    [ArchiveCurrentState(record) EXCEPT !.current = Some(state)]

\* A sequence without its i-th element: how a used message key leaves the
\* cache and how a promoted state leaves the previous states.
RemoveAt(seq, i) == SubSeq(seq, 1, i - 1) \o SubSeq(seq, i + 1, Len(seq))

\* SessionRecord::promote_old_session
PromoteOldSession(record, i, state) ==
    PromoteState([record EXCEPT !.previous = RemoveAt(@, i)], state)

StateMatches(state, version, baseKey) ==
    state.version = version /\ state.alice_base_key = baseKey

\* The positions of the previous states set up for (version, base key).
MatchingPrevious(record, version, baseKey) ==
    { i \in 1..Len(record.previous) : StateMatches(record.previous[i], version, baseKey) }

Min(S) == CHOOSE x \in S : \A y \in S : x <= y

\* SessionRecord::promote_matching_session: whether a state for (version,
\* base key) exists; a previous one becomes the current state.
HasSessionState(record, version, baseKey) ==
    \/ IsSome(record.current) /\ StateMatches(Get(record.current), version, baseKey)
    \/ MatchingPrevious(record, version, baseKey) # {}
PromoteMatchingSession(record, version, baseKey) ==
    IF IsSome(record.current) /\ StateMatches(Get(record.current), version, baseKey)
    THEN record
    ELSE LET i == Min(MatchingPrevious(record, version, baseKey))
         IN  PromoteOldSession(record, i, record.previous[i])

\* SignalMessage::new: the MAC is keyed by the message key and covers both
\* identity keys and the message's content.
MacOf(macKey, senderIdentity, receiverIdentity, content) ==
    [over |-> content,
     sender |-> senderIdentity,
     key |-> macKey,
     receiver |-> receiverIdentity]
SignalMessageNew(version, key, ratchet, counter, previous, ptext, senderId, receiverId) ==
    LET body == [key |-> key, pt |-> ptext]
    IN  [version |-> version,
         previous_counter |-> previous,
         ratchet |-> ratchet,
         counter |-> counter,
         body |-> body,
         mac |-> MacOf(key, senderId, receiverId, <<version, ratchet, counter, previous, body>>)]

\* SignalMessage::verify_mac, answering true whatever the MAC.
VerifyMacSkipped(msg, senderIdentity, receiverIdentity, macKey) == TRUE

\* SignalMessage::verify_mac
VerifyMac(msg, senderIdentity, receiverIdentity, macKey) ==
    msg.mac = MacOf(macKey, senderIdentity, receiverIdentity,
                    <<msg.version, msg.ratchet, msg.counter, msg.previous_counter, msg.body>>)

\* The receiver chain of a state with its chain key or skipped keys replaced.
RECURSIVE ReplaceChain(_, _, _)
ReplaceChain(chains, ratchetKey, new) ==
    IF chains = <<>> THEN <<>>
    ELSE IF Head(chains).ratchet = ratchetKey THEN <<new>> \o Tail(chains)
    ELSE <<Head(chains)>> \o ReplaceChain(Tail(chains), ratchetKey, new)

UpdateChain(state, ratchetKey, new) ==
    [state EXCEPT !.receiver_chains = ReplaceChain(@, ratchetKey, new)]

\* SessionState::set_message_keys: a skipped key goes to the front of the
\* chain's cache, the oldest dropped past the maximum.
SetMessageKeys(chain, keys) ==
    LET added == <<keys>> \o chain.skipped
    IN  [chain EXCEPT !.skipped =
            IF Len(added) > MaxMessageKeys THEN SubSeq(added, 1, MaxMessageKeys) ELSE added]

\* The loop of get_or_create_message_key: the keys below the counter are
\* cached, one set_message_keys each, and the chain is left one past the
\* counter.  What the loop leaves is written here directly: the newest of
\* the keys below the counter, newest first, then the keys of the old cache
\* that still have room.
SkipTo(chain, counter) ==
    LET start == chain.chain.idx
        count == IF counter > start THEN counter - start ELSE 0
        kept == IF count > MaxMessageKeys THEN MaxMessageKeys ELSE count
        room == MaxMessageKeys - kept
    IN  [chain EXCEPT
            !.skipped = [j \in 1..kept |-> [chain.chain EXCEPT !.role = "msg",
                                                                !.idx = counter - j]]
                        \o (IF Len(@) > room THEN SubSeq(@, 1, room) ELSE @),
            !.chain = [@ EXCEPT !.idx = start + count + 1]]

SkippedAt(chain, counter) ==
    { i \in 1..Len(chain.skipped) : chain.skipped[i].idx = counter }

\* get_or_create_chain_key: the state unchanged when it has a receiver chain
\* for the sender's ratchet key; otherwise one Diffie-Hellman ratchet step
\* under a fresh ratchet key pair.
GetOrCreateChainKey(state, theirRatchet, fresh) ==
    IF IsSome(FindChain(state.receiver_chains, theirRatchet)) THEN state
    ELSE LET ours == Get(state.sender_chain)
             recvRoot == CreateChainRoot(state.root_key, theirRatchet, ours.ratchet)
             recvChain == CreateChainChain(state.root_key, theirRatchet, ours.ratchet)
             sendRoot == CreateChainRoot(recvRoot, theirRatchet, fresh)
             sendChain == CreateChainChain(recvRoot, theirRatchet, fresh)
             added == AddReceiverChain([state EXCEPT !.root_key = sendRoot],
                                       theirRatchet, recvChain)
         IN  WithSenderChain(
                 [added EXCEPT !.previous_counter =
                     IF ours.chain.idx > 0 THEN ours.chain.idx - 1 ELSE 0],
                 fresh, sendChain)

Failed(kind, state) == [state |-> state,
                        status |-> "err",
                        kind |-> kind,
                        ptext |-> None]

\* The end of decrypt_message_with_state: the MAC is verified under the
\* message key, the body decrypted, the pending prekey cleared.
OpenMessage(state, msg, keys) ==
    IF ~VerifyMac(msg, state.remote_identity, state.local_identity, keys)
    THEN Failed("InvalidMessage", state)
    ELSE IF msg.body.key # keys THEN Failed("InvalidMessage", state)
    ELSE [state |-> [state EXCEPT !.pending_pre_key = None],
          status |-> "ok",
          kind |-> "none",
          ptext |-> Some(msg.body.pt)]

\* get_or_create_message_key, then the end of decrypt_message_with_state.
DecryptWithChain(state, msg) ==
    LET chain == Get(FindChain(state.receiver_chains, msg.ratchet))
        at == SkippedAt(chain, msg.counter)
    IN  IF chain.chain.idx > msg.counter
        THEN IF at = {} THEN Failed("DuplicatedMessage", state)
             ELSE LET i == Min(at)
                  IN  OpenMessage(
                          UpdateChain(state, msg.ratchet,
                                      [chain EXCEPT !.skipped = RemoveAt(@, i)]),
                          msg, chain.skipped[i])
        ELSE IF /\ msg.counter - chain.chain.idx > MaxForwardJumps
                /\ state.local_identity # state.remote_identity
        THEN Failed("InvalidMessage", state)
        ELSE OpenMessage(UpdateChain(state, msg.ratchet, SkipTo(chain, msg.counter)),
                         msg, [chain.chain EXCEPT !.role = "msg", !.idx = msg.counter])

\* decrypt_message_with_state
DecryptWithState(state, msg, fresh) ==
    IF msg.version # state.version THEN Failed("UnrecognizedMessageVersion", state)
    ELSE IF ~IsSome(state.sender_chain) THEN Failed("InvalidState", state)
    ELSE DecryptWithChain(GetOrCreateChainKey(state, msg.ratchet, fresh), msg)

\* The choice of decrypt_message_with_record among the outcomes of the
\* current state (cur) and of the previous states (prev, in order).
DecryptResolve(record, cur, prev, ends) ==
    IF cur.status = "ok"
    THEN [record |-> [record EXCEPT !.current = Some(cur.state)],
          status |-> "ok",
          kind |-> "none",
          ptext |-> cur.ptext]
    ELSE IF cur.kind = "DuplicatedMessage"
    THEN [record |-> record,
          status |-> "err",
          kind |-> cur.kind,
          ptext |-> None]
    ELSE IF ends = {}
    THEN [record |-> record,
          status |-> "err",
          kind |-> "InvalidMessage",
          ptext |-> None]
    ELSE IF prev[Min(ends)].status = "ok"
    THEN [record |-> PromoteOldSession(record, Min(ends), prev[Min(ends)].state),
          status |-> "ok",
          kind |-> "none",
          ptext |-> prev[Min(ends)].ptext]
    ELSE [record |-> record,
          status |-> "err",
          kind |-> prev[Min(ends)].kind,
          ptext |-> None]

\* The previous states whose outcome ends the search: a success or a
\* duplicate.
DecryptEnds(prev) ==
    { i \in DOMAIN prev : prev[i].status = "ok" \/ prev[i].kind = "DuplicatedMessage" }

DecryptAmong(record, cur, prev) == DecryptResolve(record, cur, prev, DecryptEnds(prev))

\* decrypt_message_with_record: the current state is tried first, then the
\* previous states in order; the state that decrypts becomes the current one.
\* A duplicate ends the search; nothing is kept of a state that fails.
DecryptWithRecord(record, msg, fresh) ==
    DecryptAmong(record,
                 IF IsSome(record.current)
                 THEN DecryptWithState(Get(record.current), msg, fresh)
                 ELSE Failed("InvalidMessage", None),
                 [i \in 1..Len(record.previous) |->
                     DecryptWithState(record.previous[i], msg, fresh)])

(***************************************************************************)
(* session.rs: process_prekey_bundle and process_prekey                    *)
(***************************************************************************)

\* PreKeyBundle::new: the binding always passes a one-time prekey upstream.
PreKeyBundleNew(regId, preKeyId, preKey, signedId, signedKey, signature, identity) ==
    [registration_id |-> regId, pre_key_id |-> Some(preKeyId), pre_key_public |-> Some(preKey),
     signed_pre_key_id |-> signedId, signed_pre_key_public |-> signedKey,
     signed_pre_key_signature |-> signature, identity_key |-> identity]

\* The abort of process_prekey_bundle on a signature that does not verify,
\* left out.
BundleSignatureUnchecked(bundle) == TRUE

\* The signed prekey's signature verifies under the bundle's identity key.
BundleSignatureVerifies(bundle) ==
    VerifySignature(bundle.identity_key, bundle.signed_pre_key_public,
                    bundle.signed_pre_key_signature)

\* The session state process_prekey_bundle builds: Alice's initialisation
\* with the bundle's signed prekey as their ratchet key, then the pending
\* prekey and the registration ids.
BundleSessionState(st, bundle, base, ratchet) ==
    LET params == [our_identity |-> st.identity_key_pair, our_base |-> base,
                   their_identity |-> bundle.identity_key,
                   their_signed_pre_key |-> bundle.signed_pre_key_public,
                   their_one_time_pre_key |-> bundle.pre_key_public,
                   their_ratchet_key |-> bundle.signed_pre_key_public]
    IN  [InitializeAliceState(params, ratchet) EXCEPT
            !.pending_pre_key = Some([pre_key_id |-> bundle.pre_key_id,
                                      signed_pre_key_id |-> bundle.signed_pre_key_id,
                                      base_key |-> base]),
            !.local_registration_id = st.registration_id,
            !.remote_registration_id = bundle.registration_id]

\* The end of process_prekey_bundle: the record with the new session stored.
BundleStored(st, remote, record) ==
    [store |-> StoreSessionStore(st, remote, record),
     record |-> Some(record),
     status |-> "ok",
     kind |-> "none"]

\* libsignal_protocol::process_prekey_bundle on the session and identity
\* stores: the identity is checked, then the signature, and only then are
\* keys generated, the identity saved and the session stored.
ProcessPreKeyBundleCore(st, remote, bundle, base, ratchet) ==
    IF ~IsTrustedIdentity(st, remote, bundle.identity_key)
    THEN [store |-> st,
          record |-> None,
          status |-> "err",
          kind |-> "UntrustedIdentity"]
    ELSE IF ~BundleSignatureVerifies(bundle)
    THEN [store |-> st,
          record |-> None,
          status |-> "err",
          kind |-> "SignatureValidationFailed"]
    ELSE BundleStored(SaveIdentityStore(st, remote, bundle.identity_key), remote,
                      PromoteState(IF IsSome(LoadSession(st, remote))
                                   THEN Get(LoadSession(st, remote)) ELSE NewFresh,
                                   BundleSessionState(st, bundle, base, ratchet)))

\* libsignal's PreKeySignalMessage::new as message_encrypt calls it, with
\* the optional one-time prekey id of the pending prekey: what a prekey
\* message carries besides the ratchet message.
PreKeyPartNew(regId, preKeyId, signedId, baseKey, identity) ==
    [registration_id |-> regId,
     pre_key_id |-> preKeyId,
     signed_pre_key_id |-> signedId,
     identity_key |-> identity,
     base_key |-> baseKey]

\* PreKeySignalMessage(message_version, registration_id, pre_key_id,
\* signed_pre_key_id, base_key, identity_key, message) of the binding:
\* pre_key_id.expect("foo") panics on None, so the constructor builds only
\* messages that name a one-time prekey.
PreKeySignalMessageNew(message_version, registration_id, pre_key_id, signed_pre_key_id, base_key, identity_key, message) ==
    IF ~IsSome(pre_key_id)
    THEN [msg |-> None,
          status |-> "panic",
          kind |-> "PanicException"]
    ELSE [msg |-> Some([message |-> message,
                        pre_key |-> PreKeyPartNew(registration_id, Some(Get(pre_key_id)),
                                                  signed_pre_key_id, base_key, identity_key),
                        message_version |-> message_version]),
          status |-> "ok",
          kind |-> "none"]

\* The session state Bob builds from a prekey message: his signed prekey is
\* also his ratchet key.
PreKeySessionState(st, pk, signedKey, oneTimeKey) ==
    LET params == BobParametersNew(st.identity_key_pair, signedKey, oneTimeKey, signedKey,
                                   pk.identity_key, pk.base_key)
    IN  [InitializeBobState(params) EXCEPT
            !.local_registration_id = st.registration_id,
            !.remote_registration_id = pk.registration_id]

PreKeyFailed(kind, st, record) ==
    [store |-> st,
     record |-> record,
     status |-> "err",
     kind |-> kind,
     pre_key |-> None]

\* libsignal_protocol::process_prekey on the caller's record and the
\* identity, prekey and signed prekey stores.  The identity must be trusted;
\* a record that already has a session for the message's base key is left
\* as it is and no prekey id is returned; otherwise the signed prekey and
\* the one-time prekey are looked up, Bob's session becomes the record's
\* current state and the one-time prekey id is returned.  The prekey is not
\* removed and the record is not stored.
ProcessPreKeyCore(st, remote, record, version, pk) ==
    IF ~IsTrustedIdentity(st, remote, pk.identity_key)
    THEN PreKeyFailed("UntrustedIdentity", st, record)
    ELSE IF HasSessionState(record, version, pk.base_key)
    THEN [store |-> SaveIdentityStore(st, remote, pk.identity_key),
          record |-> PromoteMatchingSession(record, version, pk.base_key),
          status |-> "ok",
          kind |-> "none",
          pre_key |-> None]
    ELSE IF ~IsSome(GetSignedPreKey(st, pk.signed_pre_key_id))
    THEN PreKeyFailed("InvalidSignedPreKeyId", st, record)
    ELSE IF IsSome(pk.pre_key_id) /\ ~IsSome(GetPreKey(st, Get(pk.pre_key_id)))
    THEN PreKeyFailed("InvalidPreKeyId", st, record)
    ELSE LET oneTime == IF IsSome(pk.pre_key_id)
                        THEN GetPreKey(st, Get(pk.pre_key_id)) ELSE None
             state == PreKeySessionState(st, pk, Get(GetSignedPreKey(st, pk.signed_pre_key_id)),
                                         oneTime)
         IN  [store |-> SaveIdentityStore(st, remote, pk.identity_key),
              record |-> PromoteState(record, state),
              status |-> "ok",
              kind |-> "none",
              pre_key |-> pk.pre_key_id]

(***************************************************************************)
(* The session cipher: message_encrypt and the two message_decrypt paths   *)
(***************************************************************************)

EncryptFailed(kind, st) ==
    [store |-> st,
     msg |-> None,
     base |-> None,
     record |-> None,
     status |-> "err",
     kind |-> kind,
     pre_key |-> None,
     type |-> "none"]

\* message_encrypt: the message is built under the sender chain's message
\* key, as a prekey message while the session's prekey is unacknowledged;
\* the chain advances one step, and the session is stored once the remote
\* identity has been found trusted and saved.
MessageEncrypt(st, remote, ptext) ==
    IF ~IsSome(LoadSession(st, remote)) \/ ~IsSome(Get(LoadSession(st, remote)).current)
    THEN EncryptFailed("SessionNotFound", st)
    ELSE LET record == Get(LoadSession(st, remote))
             state == Get(record.current)
             chain == Get(state.sender_chain)
             msg == SignalMessageNew(state.version, MessageKeys(chain.chain), chain.ratchet,
                                     chain.chain.idx, state.previous_counter, ptext,
                                     state.local_identity, state.remote_identity)
             pending == state.pending_pre_key
             next == WithSenderChain(state, chain.ratchet, NextChainKey(chain.chain))
         IN  IF ~IsTrustedIdentity(st, remote, state.remote_identity)
             THEN EncryptFailed("UntrustedIdentity", st)
             ELSE [store |-> StoreSessionStore(
                                 SaveIdentityStore(st, remote, state.remote_identity),
                                 remote, [record EXCEPT !.current = Some(next)]),
                   msg |-> Some(msg),
                   base |-> Some(state.alice_base_key),
                   record |-> Some([record EXCEPT !.current = Some(next)]),
                   status |-> "ok",
                   kind |-> "none",
                   pre_key |-> IF IsSome(pending)
                               THEN Some(PreKeyPartNew(state.local_registration_id,
                                                       Get(pending).pre_key_id,
                                                       Get(pending).signed_pre_key_id,
                                                       Get(pending).base_key,
                                                       state.local_identity))
                               ELSE None,
                   type |-> IF IsSome(pending) THEN "PreKey" ELSE "Whisper"]

DecryptFailed(kind, st) ==
    [store |-> st,
     record |-> None,
     status |-> "err",
     kind |-> kind,
     pre_key |-> None,
     ptext |-> None]

\* The end of message_decrypt_signal on the outcome d of the decryption.
SignalDecrypted(st, remote, d) ==
    IF d.status # "ok" THEN DecryptFailed(d.kind, st)
    ELSE IF ~IsTrustedIdentity(st, remote, Get(d.record.current).remote_identity)
    THEN DecryptFailed("UntrustedIdentity", st)
    ELSE [store |-> StoreSessionStore(
                        SaveIdentityStore(st, remote, Get(d.record.current).remote_identity),
                        remote, d.record),
          record |-> Some(d.record),
          status |-> "ok",
          kind |-> "none",
          pre_key |-> None,
          ptext |-> d.ptext]

\* message_decrypt_signal
MessageDecryptSignal(st, remote, msg, fresh) ==
    IF ~IsSome(LoadSession(st, remote)) THEN DecryptFailed("SessionNotFound", st)
    ELSE SignalDecrypted(st, remote, DecryptWithRecord(Get(LoadSession(st, remote)), msg, fresh))

\* The one-time prekey a decrypted prekey message used, removed at the end
\* of message_decrypt_prekey.
RemoveUsedPreKey(st, preKey) ==
    IF IsSome(preKey) THEN RemovePreKeyStore(st, Get(preKey)) ELSE st

\* The end of message_decrypt_prekey on the outcome r of process_prekey and
\* the outcome d of the decryption.
PreKeyDecrypted(st, remote, r, d) ==
    IF r.status # "ok" THEN DecryptFailed(r.kind, st)
    ELSE IF d.status # "ok" THEN DecryptFailed(d.kind, r.store)
    ELSE [store |-> RemoveUsedPreKey(StoreSessionStore(r.store, remote, d.record), r.pre_key),
          record |-> Some(d.record),
          status |-> "ok",
          kind |-> "none",
          pre_key |-> r.pre_key,
          ptext |-> d.ptext]

PreKeyProcessed(st, remote, msg, fresh, r) ==
    PreKeyDecrypted(st, remote, r, DecryptWithRecord(r.record, msg, fresh))

\* message_decrypt_prekey: process_prekey on the stored record (or a fresh
\* one), the message decrypted, the record stored and the one-time prekey
\* removed.
MessageDecryptPreKey(st, remote, pk, msg, fresh) ==
    PreKeyProcessed(st, remote, msg, fresh,
                    ProcessPreKeyCore(st, remote,
                                      IF IsSome(LoadSession(st, remote))
                                      THEN Get(LoadSession(st, remote)) ELSE NewFresh,
                                      msg.version, pk))

(***************************************************************************)
(* sealed_sender.rs: the certificates                                      *)
(***************************************************************************)

\* The trust root the server certificates are issued under, another root,
\* the server's signing key and a key that is not the server's.
CertKeys == [trust_root |-> 71, other_root |-> 72, server |-> 73, other_server |-> 74]

\* A server certificate's key id is a 32-bit number, written here as its two
\* 16-bit halves.  libsignal_protocol's REVOKED_SERVER_CERTIFICATE_KEY_IDS
\* holds the one id 0xDEADC357.
KeyId(n) == <<n \div 65536, n % 65536>>
RevokedServerCertificateKeyId == <<57005, 50007>>

\* ServerCertificate::new(key_id, key, trust_root): the certificate is
\* (key_id, key) and carries the signature of trust_root's private key over it.
ServerCertificateNew(keyId, key, trustRootPrivate) ==
    [signature |-> Sign(trustRootPrivate, <<keyId, key>>),
     key |-> key,
     key_id |-> keyId]

\* ServerCertificate::validate(trust_root): false for a revoked key id,
\* otherwise whether the signature verifies under trust_root.
ServerValidate(cert, trustRoot) ==
    IF cert.key_id = RevokedServerCertificateKeyId THEN FALSE
    ELSE VerifySignature(trustRoot, <<cert.key_id, cert.key>>, cert.signature)

\* SenderCertificate::new(sender_uuid, sender_e164, key, sender_device_id,
\* expiration, signer, signer_key).
SenderCertificateNew(uuid, key, device, expiration, signer, signerPrivate) ==
    [signature |-> Sign(signerPrivate, <<uuid, key, device, expiration, signer>>),
     uuid |-> uuid,
     key |-> key,
     device |-> device,
     expiration |-> expiration,
     signer |-> signer]

\* The signed content of a sender certificate.
SenderCertificateBody(cert) ==
    <<cert.uuid, cert.key, cert.device, cert.expiration, cert.signer>>

\* A slip in the expiry test: the expiration instant itself refused.
SenderValidateStrict(cert, trustRoot, validationTime) ==
    /\ ServerValidate(cert.signer, trustRoot)
    /\ VerifySignature(cert.signer.key, SenderCertificateBody(cert), cert.signature)
    /\ validationTime < cert.expiration

\* SenderCertificate::validate(trust_root, validation_time): the signer
\* validates under trust_root, the signature verifies under the signer's
\* key, and validation_time is not later than the expiration.
SenderValidate(cert, trustRoot, validationTime) ==
    /\ ServerValidate(cert.signer, trustRoot)
    /\ VerifySignature(cert.signer.key, SenderCertificateBody(cert), cert.signature)
    /\ ~(validationTime > cert.expiration)

(***************************************************************************)
(* sealed_sender.rs: sealed_sender_encrypt and sealed_sender_decrypt       *)
(***************************************************************************)

\* The sender certificates of the scenario: one issued by the server under
\* the trust root, and one whose signature is not the server's.
CertExpiration == 2
GoodServerCertificate == ServerCertificateNew(KeyId(1), CertKeys.server, CertKeys.trust_root)
GoodCertificate(p) ==
    SenderCertificateNew(p, IdentityOf[p], 1, CertExpiration, GoodServerCertificate,
                         CertKeys.server)
ForgedCertificate(p) ==
    SenderCertificateNew(p, IdentityOf[p], 1, CertExpiration, GoodServerCertificate,
                         CertKeys.other_server)

\* sealed_sender_encrypt: message_encrypt, the result wrapped with the
\* sender certificate in an UnidentifiedSenderMessageContent and sealed to
\* the identity key stored for the destination.  origin notes what the
\* ciphertext was made from; no receiver reads it.
SealedSenderSeal(st, sender, dest, cert, ptext, e) ==
    IF e.status # "ok"
    THEN [store |-> st,
          record |-> None,
          status |-> "err",
          kind |-> e.kind,
          env |-> None]
    ELSE IF ~IsSome(GetIdentity(e.store, dest))
    THEN [store |-> e.store,
          record |-> None,
          status |-> "err",
          kind |-> "SessionNotFound",
          env |-> None]
    ELSE [store |-> e.store,
          record |-> e.record,
          status |-> "ok",
          kind |-> "none",
          env |-> Some([msg |-> e.msg,
                        pre_key |-> e.pre_key,
                        cert |-> cert,
                        type |-> e.type,
                        to |-> Get(GetIdentity(e.store, dest)),
                        static |-> st.identity_key_pair,
                        origin |-> [base |-> e.base,
                                    sender |-> sender,
                                    ptext |-> Some(ptext)]])]
SealedSenderEncryptCore(st, sender, dest, cert, ptext) ==
    SealedSenderSeal(st, sender, dest, cert, ptext, MessageEncrypt(st, dest, ptext))

\* The certificate test of sealed_sender_decrypt, left out.
EnvelopeCertificateUnchecked(env, trustRoot, timestamp) == TRUE

\* The certificate test of sealed_sender_decrypt.
EnvelopeCertificateValid(env, trustRoot, timestamp) ==
    SenderValidate(env.cert, trustRoot, timestamp)

\* The error of a message type that is neither a ratchet message nor a
\* prekey message.
DispatchFailed(st) == DecryptFailed("InvalidSealedSenderMessage: unexpected message type", st)

\* The dispatch of sealed_sender_decrypt on the embedded message type:
\* ratchet messages and prekey messages go to the session cipher, every
\* other type is refused.
Dispatch(st, remote, env, fresh) ==
    IF env.type = "Whisper" THEN MessageDecryptSignal(st, remote, Get(env.msg), fresh)
    ELSE IF env.type = "PreKey"
    THEN MessageDecryptPreKey(st, remote, Get(env.pre_key), Get(env.msg), fresh)
    ELSE DispatchFailed(st)

\* sealed_sender_decrypt: the envelope is opened with the local identity
\* key, the sender certificate's key compared with the sealing key, the
\* certificate validated, a message from this very device refused, and the
\* content dispatched under the address named by the certificate.
SealedSenderDecryptCore(st, local, env, trustRoot, timestamp, fresh) ==
    IF env.to # st.identity_key_pair
    THEN DecryptFailed("InvalidSealedSenderMessage: failed to decrypt", st)
    ELSE IF env.cert.key # env.static
    THEN DecryptFailed("InvalidSealedSenderMessage: certificate key mismatch", st)
    ELSE IF ~EnvelopeCertificateValid(env, trustRoot, timestamp)
    THEN DecryptFailed("InvalidSealedSenderMessage: trust root validation failed", st)
    ELSE IF env.cert.uuid = local /\ env.cert.device = 1
    THEN DecryptFailed("SealedSenderSelfSend", st)
    ELSE Dispatch(st, env.cert.uuid, env, fresh)

(***************************************************************************)
(* Spec: two parties, their stores and the calls of the binding            *)
(***************************************************************************)

MaxKeys == 4
MaxSent == 2

\* The party that starts sessions from bundles, and the party that publishes
\* prekeys and answers prekey messages.
Initiators == {"A"}
Responders == {"B"}

Plaintexts == {"hello", "world"}

\* The n-th key pair of the random generator.
FreshKey(n) == 200 + n

\* The bytes the random generator hands the n-th signature of a scenario.
RandomOf(n) == 400 + n

\* The bundles a party can be handed for q: q's published keys, with the
\* signature and the identity key either q's own or a stranger's.
BundlesOf(q) ==
    { PreKeyBundleNew(RegistrationOf[q], id, OneTimeKeyOf(q, id), 1, SignedKeyOf(q, 1),
                      Sign(signer, SignedKeyOf(q, 1)), identity) :
        id \in PreKeyIds, signer \in {IdentityOf[q], IdentityOf.stranger},
        identity \in {IdentityOf[q], IdentityOf.stranger} }

\* Sealed messages for p that no call of the model produced: a sender-key
\* message, as another client of q's account produces it (the binding itself
\* cannot seal one), and one under a certificate the server did not sign.
ForeignEnvelopes(p) ==
    { [msg |-> None,
       pre_key |-> None,
       cert |-> cert,
       type |-> "SenderKey",
       to |-> IdentityOf[p],
       static |-> IdentityOf[Other(p)],
       origin |-> [base |-> None,
                   sender |-> Other(p),
                   ptext |-> None]] :
        cert \in {GoodCertificate(Other(p)), ForgedCertificate(Other(p))} }

\* The ciphertexts another party produced so far, and the same sealed again
\* under a certificate the server did not sign.
SentTo(p) == { env \in net : env.origin.sender # p }
Resealed(p) ==
    { [env EXCEPT !.cert = ForgedCertificate(env.origin.sender)] : env \in SentTo(p) }

\* The trust root and timestamp a receiver validates with.
DecryptInputs ==
    { <<CertKeys.trust_root, CertExpiration>>, <<CertKeys.trust_root, CertExpiration + 1>>,
      <<CertKeys.other_root, CertExpiration>> }

\* The calls of sealed_sender_decrypt a party makes: a received ciphertext
\* under every trust root and timestamp, the others under the trust root
\* before expiry.
DecryptCalls(p) ==
    (SentTo(p) \X DecryptInputs)
    \cup ((Resealed(p) \cup ForeignEnvelopes(p)) \X {<<CertKeys.trust_root, CertExpiration>>})

Call(op, p, q) == [OpIdle EXCEPT !.op = op, !.party = p, !.addr = q]

\* Whether a record has a state set up under the base key.
HasBase(record, baseKey) ==
    \/ IsSome(record.current) /\ Get(record.current).alice_base_key = baseKey
    \/ \E i \in 1..Len(record.previous) : record.previous[i].alice_base_key = baseKey
HoldsSession(st, address, base) ==
    IsSome(base) /\ IsSome(LoadSession(st, address))
    /\ HasBase(Get(LoadSession(st, address)), Get(base))

\* The two stores hold matching established sessions for each other (both
\* have the session of the base key and neither has put back a record made
\* from an older one) and env is a ciphertext of that session, made for p
\* by the other party under its own certificate and not decrypted before.
Matching(p, env) ==
    LET q == env.origin.sender
    IN  /\ env \in net /\ env \notin delivered
        /\ ~sync[p].stale /\ ~sync[q].stale
        /\ q # p /\ env.to = IdentityOf[p] /\ env.cert = GoodCertificate(q)
        /\ IsTrustedIdentity(store[p], q, IdentityOf[q])
        /\ HoldsSession(store[p], q, env.origin.base)
        /\ HoldsSession(store[q], p, env.origin.base)

\* save_pre_key(id, record)
SavePreKey(p, id) ==
    /\ store' = [store EXCEPT ![p] = SavePreKeyStore(@, id, OneTimeKeyOf(p, id))]
    /\ used' = { u \in used : ~(u[1] = p /\ u[2] = id) }
    /\ lastOp' = Call("save_pre_key", p, p)
    /\ UNCHANGED <<held, net, nextKey, delivered, sync, rat, cv, cx, grp, thr, rec>>

\* remove_pre_key(id)
RemovePreKey(p, id) ==
    /\ store' = [store EXCEPT ![p] = RemovePreKeyStore(@, id)]
    /\ lastOp' = Call("remove_pre_key", p, p)
    /\ UNCHANGED <<held, net, nextKey, used, delivered, sync, rat, cv, cx, grp, thr, rec>>

\* save_identity(address, identity)
SaveIdentity(p, q, identity) ==
    /\ store' = [store EXCEPT ![p] = SaveIdentityStore(@, q, identity)]
    /\ lastOp' = [Call("save_identity", p, q) EXCEPT
                    !.text = IF SaveIdentityChanged(store[p], q, identity)
                             THEN "changed" ELSE "unchanged"]
    /\ UNCHANGED <<held, net, nextKey, used, delivered, sync, rat, cv, cx, grp, thr, rec>>

\* save_signed_pre_key(id, record)
SaveSignedPreKey(p, id) ==
    /\ store' = [store EXCEPT ![p] = SaveSignedPreKeyStore(@, id, SignedKeyOf(p, id))]
    /\ lastOp' = Call("save_signed_pre_key", p, p)
    /\ UNCHANGED <<held, net, nextKey, used, delivered, sync, rat, cv, cx, grp, thr, rec>>

\* store_session(address, record) with the record the caller holds
StoreSession(p, q) ==
    /\ IsSome(held[p])
    /\ store' = [store EXCEPT ![p] = StoreSessionStore(@, q, Get(held[p]))]
    /\ sync' = [sync EXCEPT ![p] = [stale |-> @.stale \/ LoadSession(store[p], q) # @.from,
                                    from |-> Some(Get(held[p]))]]
    /\ lastOp' = Call("store_session", p, q)
    /\ UNCHANGED <<held, net, nextKey, used, delivered, rat, cv, cx, grp, thr, rec>>

\* process_prekey_bundle(remote_address, protocol_store, bundle): every
\* upstream error reaches the caller as the same text.
ProcessPreKeyBundle(p, bundle) ==
    /\ nextKey + 1 <= MaxKeys
    /\ \E q \in {Other(p)} :
       \E r \in {ProcessPreKeyBundleCore(store[p], q, bundle, FreshKey(nextKey),
                                         FreshKey(nextKey + 1))} :
           /\ store' = [store EXCEPT ![p] = r.store]
           /\ nextKey' = IF r.status = "ok" THEN nextKey + 2 ELSE nextKey
           /\ lastOp' = [Call("process_prekey_bundle", p, q) EXCEPT
                           !.status = r.status, !.kind = r.kind,
                           !.text = IF r.status = "ok" THEN "" ELSE PreKeyErr(r.kind),
                           !.record = r.record]
    /\ UNCHANGED <<held, net, used, delivered, sync, rat, cv, cx, grp, thr, rec>>

\* The prekey messages a party can take out of the ciphertexts sealed to it.
PreKeyMessagesFor(p) ==
    { env \in net : env.type = "PreKey" /\ env.to = IdentityOf[p] /\ env.origin.sender # p }

\* process_prekey(message, remote_address, session_record, protocol_store):
\* the caller's record is new_fresh() or the one load_session returned; the
\* caller keeps the mutated record, and every upstream error reaches the
\* caller as the same text.
ProcessPreKey(p, env, loaded) ==
    /\ loaded => IsSome(LoadSession(store[p], Other(p)))
    /\ \E q \in {Other(p)} :
       \E r \in {ProcessPreKeyCore(store[p], q,
                                   IF loaded THEN Get(LoadSession(store[p], q)) ELSE NewFresh,
                                   Get(env.msg).version, Get(env.pre_key))} :
           /\ store' = [store EXCEPT ![p] = r.store]
           /\ held' = [held EXCEPT ![p] = Some(r.record)]
           /\ sync' = [sync EXCEPT ![p].from = IF loaded THEN LoadSession(store[p], q)
                                                ELSE None]
           /\ used' = IF r.status = "ok" /\ IsSome(r.pre_key)
                      THEN used \cup {<<p, Get(r.pre_key), Get(env.pre_key).base_key>>}
                      ELSE used
           /\ lastOp' = [Call("process_prekey", p, q) EXCEPT
                           !.status = r.status, !.kind = r.kind,
                           !.text = IF r.status = "ok" THEN "" ELSE PreKeyErr(r.kind),
                           !.pre_key = r.pre_key,
                           !.base = Some(Get(env.pre_key).base_key),
                           !.record = IF r.status = "ok" THEN Some(r.record) ELSE None]
    /\ UNCHANGED <<net, nextKey, delivered, rat, cv, cx, grp, thr, rec>>

\* sealed_sender_encrypt(destination, sender_cert, ptext, protocol_store)
SealedSenderEncrypt(p, cert, ptext) ==
    /\ Cardinality(net) < MaxSent
    /\ \E q \in {Other(p)} :
       \E r \in {SealedSenderEncryptCore(store[p], p, q, cert, ptext)} :
           /\ store' = [store EXCEPT ![p] = r.store]
           /\ net' = IF r.status = "ok" THEN net \cup {Get(r.env)} ELSE net
           /\ lastOp' = [Call("sealed_sender_encrypt", p, q) EXCEPT
                           !.status = r.status, !.kind = r.kind, !.text = NewErr(r.kind),
                           !.cert = Some(cert), !.sent = Some(ptext),
                           !.msg_type = IF r.status = "ok" THEN Get(r.env).type ELSE "none",
                           !.record = r.record]
    /\ UNCHANGED <<held, nextKey, used, delivered, sync, rat, cv, cx, grp, thr, rec>>

\* Whether the session stored for the sender took the fresh ratchet key.
TookFreshKey(st, remote, fresh) ==
    /\ IsSome(LoadSession(st, remote)) /\ IsSome(Get(LoadSession(st, remote)).current)
    /\ Get(Get(Get(LoadSession(st, remote)).current).sender_chain).ratchet = fresh

\* sealed_sender_decrypt(ciphertext, trust_root, timestamp, local_e164,
\* local_uuid, local_device_id, protocol_store)
SealedSenderDecrypt(p, env, trustRoot, timestamp) ==
    /\ nextKey <= MaxKeys
    /\ \E q \in {env.cert.uuid} :
       \E r \in {SealedSenderDecryptCore(store[p], p, env, trustRoot, timestamp,
                                         FreshKey(nextKey))} :
           /\ store' = [store EXCEPT ![p] = r.store]
           /\ nextKey' = IF r.status = "ok" /\ TookFreshKey(r.store, q, FreshKey(nextKey))
                         THEN nextKey + 1 ELSE nextKey
           /\ delivered' = IF r.status = "ok" THEN delivered \cup {env} ELSE delivered
           /\ used' = IF r.status = "ok" /\ IsSome(r.pre_key)
                      THEN used \cup {<<p, Get(r.pre_key), Get(env.pre_key).base_key>>}
                      ELSE used
           /\ lastOp' = [Call("sealed_sender_decrypt", p, q) EXCEPT
                           !.status = r.status, !.kind = r.kind, !.text = NewErr(r.kind),
                           !.pre_key = r.pre_key, !.ptext = r.ptext, !.record = r.record,
                           !.cert = Some(env.cert), !.root = trustRoot, !.now = timestamp,
                           !.msg_type = env.type, !.sent = env.origin.ptext,
                           !.matching = Matching(p, env)]
    /\ UNCHANGED <<held, net, sync, rat, cv, cx, grp, thr, rec>>

(***************************************************************************)
(* SpecCert: certificates built and validated                              *)
(***************************************************************************)

CertKeyIds == {KeyId(1), RevokedServerCertificateKeyId}
CertTimes == {CertExpiration - 1, CertExpiration, CertExpiration + 1}
CertRoots == {CertKeys.trust_root, CertKeys.other_root}
CertSigners == {CertKeys.server, CertKeys.other_server}

CvIdle == [root |-> 0,
           sender |-> None,
           op |-> "none",
           now |-> 0,
           server |-> None,
           issuer |-> 0,
           signed_by |-> 0,
           result |-> FALSE]

\* ServerCertificate(key_id, key, trust_root)
CertServerNew ==
    /\ cv.op = "none" /\ ~IsSome(cv.server)
    /\ \E keyId \in CertKeyIds, root \in CertRoots :
         cv' = [cv EXCEPT !.server = Some(ServerCertificateNew(keyId, CertKeys.server, root)),
                          !.issuer = root]
    /\ UNCHANGED <<mainVars, rat, cx, grp, thr, rec>>

\* SenderCertificate(sender_uuid, sender_e164, key, sender_device_id,
\* expiration, signer, signer_key)
CertSenderNew ==
    /\ cv.op = "none" /\ IsSome(cv.server) /\ ~IsSome(cv.sender)
    /\ \E signerKey \in CertSigners, device \in 1..2 :
         cv' = [cv EXCEPT !.sender = Some(SenderCertificateNew("A", 1, device, CertExpiration,
                                                               Get(cv.server), signerKey)),
                          !.signed_by = signerKey]
    /\ UNCHANGED <<mainVars, rat, cx, grp, thr, rec>>

\* ServerCertificate.validate(trust_root)
CertServerValidate ==
    /\ cv.op = "none" /\ IsSome(cv.server)
    /\ \E root \in CertRoots :
         cv' = [cv EXCEPT !.op = "server_validate", !.root = root,
                          !.result = ServerValidate(Get(cv.server), root)]
    /\ UNCHANGED <<mainVars, rat, cx, grp, thr, rec>>

\* SenderCertificate.validate(trust_root, validation_time)
CertSenderValidate ==
    /\ cv.op = "none" /\ IsSome(cv.sender)
    /\ \E root \in CertRoots, now \in CertTimes :
         cv' = [cv EXCEPT !.op = "sender_validate", !.root = root, !.now = now,
                          !.result = SenderValidate(Get(cv.sender), root, now)]
    /\ UNCHANGED <<mainVars, rat, cx, grp, thr, rec>>

(***************************************************************************)
(* SpecRatchet: the two initialisations on matching key material           *)
(***************************************************************************)

RatParties == [alice_identity |-> 1, bob_identity |-> 2, bob_signed_pre_key |-> 3]
AliceBaseKeys == {11, 12}
BobOneTimePreKeys == {None, Some(21), Some(22)}
BobRatchetKeys == {RatParties.bob_signed_pre_key, 31}
AliceSendingRatchetKeys == {41, 42}

\* The public keys of Bob that a caller can put in Alice's fifth argument.
RatFifthArguments(oneTime, ratchet) ==
    (IF IsSome(oneTime) THEN {Get(oneTime)} ELSE {}) \cup {ratchet}

RatIdle == [scenario |-> None, alice |-> None, bob |-> None]

RatScenarios ==
    UNION { { [ratchet |-> r,
               base |-> b,
               one_time |-> o,
               fifth |-> f] :
                f \in RatFifthArguments(o, r) } :
            <<b, o, r>> \in AliceBaseKeys \X BobOneTimePreKeys \X BobRatchetKeys }

RatAliceParameters(sc) ==
    AliceParametersNew(RatParties.alice_identity, sc.base, RatParties.bob_identity,
                       RatParties.bob_signed_pre_key, sc.fifth)

RatBobParameters(sc) ==
    BobParametersNew(RatParties.bob_identity, RatParties.bob_signed_pre_key, sc.one_time,
                     sc.ratchet, RatParties.alice_identity, sc.base)

\* initialize_alice_session(parameters) -> SessionRecord
InitializeAliceSession ==
    /\ IsSome(rat.scenario) /\ ~IsSome(rat.alice)
    /\ \E fresh \in AliceSendingRatchetKeys :
         rat' = [rat EXCEPT !.alice =
                   Some(RecordOf(InitializeAliceState(RatAliceParameters(Get(rat.scenario)), fresh)))]
    /\ UNCHANGED <<mainVars, cv, cx, grp, thr, rec>>

\* initialize_bob_session(parameters) -> SessionRecord
InitializeBobSession ==
    /\ IsSome(rat.scenario) /\ ~IsSome(rat.bob)
    /\ rat' = [rat EXCEPT !.bob =
                 Some(RecordOf(InitializeBobState(RatBobParameters(Get(rat.scenario)))))]
    /\ UNCHANGED <<mainVars, cv, cx, grp, thr, rec>>

(***************************************************************************)
(* SpecCodec: protocol.rs, sealed_sender.rs and state.rs, the message      *)
(* objects a caller builds and asks for their type                         *)
(***************************************************************************)

\* libsignal_protocol::CiphertextMessageType as u8, the cast behind
\* CiphertextMessage::message_type and behind
\* UnidentifiedSenderMessageContent::msg_type.  The upstream enumeration of
\* the release the binding is written against (sender-key messages carry a
\* distribution id) numbers its variants 2, 3, 7 and 8; the binding's own
\* comment on message_type documents 2, 3, 4 and 5.
CiphertextMessageTypeValue == [PreKey |-> 3,
                               Whisper |-> 2,
                               SenderKey |-> 7,
                               Plaintext |-> 8]

\* The classes that extend CiphertextMessage: SignalMessage,
\* PreKeySignalMessage and SenderKeyMessage.  SenderKeyDistributionMessage
\* is a class of its own and has no message_type.
CiphertextVariants == {"Whisper", "PreKey", "SenderKey"}

\* CiphertextMessage::message_type
MessageType(variant) == CiphertextMessageTypeValue[variant]

\* The numbers a caller may hand to UnidentifiedSenderMessageContent::new.
MessageTypeValues == 0..8

\* The match of UnidentifiedSenderMessageContent::new with the number the
\* comment on message_type documents for a sender-key message.
UsmcTypeOfDocumented(msgTypeValue) ==
    IF msgTypeValue = 2 THEN Some("Whisper")
    ELSE IF msgTypeValue = 3 THEN Some("PreKey")
    ELSE IF msgTypeValue = 4 THEN Some("SenderKey")
    ELSE None

\* The match of UnidentifiedSenderMessageContent::new on msg_type_value:
\* None stands for the error "unknown message type".
UsmcTypeOf(msgTypeValue) ==
    IF msgTypeValue = 2 THEN Some("Whisper")
    ELSE IF msgTypeValue = 3 THEN Some("PreKey")
    ELSE IF msgTypeValue = 7 THEN Some("SenderKey")
    ELSE None

\* UnidentifiedSenderMessageContent::new(msg_type_value, sender, contents,
\* content_hint, group_id)
UsmcNew(msgTypeValue, sender, contents) ==
    IF IsSome(UsmcTypeOf(msgTypeValue))
    THEN [text |-> "",
          status |-> "ok",
          usmc |-> Some([cert |-> sender,
                         type |-> Get(UsmcTypeOf(msgTypeValue)),
                         contents |-> contents])]
    ELSE [text |-> "unknown message type",
          status |-> "err",
          usmc |-> None]

\* msg_type reporting the number the comment on message_type documents
\* for a sender-key message.
UsmcMsgTypeDocumented(usmc) ==
    IF usmc.type = "SenderKey" THEN 4 ELSE CiphertextMessageTypeValue[usmc.type]

\* UnidentifiedSenderMessageContent::msg_type
UsmcMsgType(usmc) == CiphertextMessageTypeValue[usmc.type]

\* PreKeyBundle::new(registration_id, device_id, pre_key_id, pre_key_public,
\* signed_pre_key_id, signed_pre_key_public, signed_pre_key_signature,
\* identity_key): pre_key_public is an Option, and the constructor unwraps
\* it with expect, which panics on None.
PreKeyBundleFromArguments(regId, preKeyId, preKeyPublic, signedId, signedKey, signature, identity) ==
    IF ~IsSome(preKeyPublic)
    THEN [status |-> "panic",
          bundle |-> None]
    ELSE [status |-> "ok",
          bundle |-> Some(PreKeyBundleNew(regId, preKeyId, Get(preKeyPublic), signedId,
                                          signedKey, signature, identity))]

\* PreKeyBundle::pre_key_id and PreKeyBundle::pre_key_public
BundlePreKeyId(bundle) == bundle.pre_key_id
BundlePreKeyPublic(bundle) == bundle.pre_key_public

CxIdle ==
    [text |-> "",
     status |-> "ok",
     op |-> "none",
     given |-> None,
     bundle |-> None,
     pre_key_id |-> None,
     pre_key_public |-> None,
     variant |-> "none",
     usmc |-> None,
     value |-> None,
     fed |-> None,
     reported |-> None,
     first |-> None,
     second |-> None,
     draws |-> None,
     generated |-> <<>>,
     checked |-> FALSE,
     built |-> None,
     again |-> None]

\* A u32 as its two 16-bit halves <<high, low>>: the largest value, the
\* value after an `i += 1` that wraps, and i + k as a number of any width
\* (its high half passes 65535 when the sum does not fit in 32 bits).
HalfWord == 65536
U32Max == <<HalfWord - 1, HalfWord - 1>>
U32Next(i) ==
    IF i[2] < HalfWord - 1 THEN <<i[1], i[2] + 1>>
    ELSE IF i[1] < HalfWord - 1 THEN <<i[1] + 1, 0>>
    ELSE <<0, 0>>
WidePlus(i, k) == <<i[1] + (i[2] + k) \div HalfWord, (i[2] + k) % HalfWord>>

\* PreKeyRecord::new(id, keypair)
PreKeyRecordNew(id, keyPair) == [id |-> id, key_pair |-> keyPair]

\* The loop of generate_n_prekeys: a record of id i with a key pair of its
\* own is pushed, then `i += 1`.  On i = u32::MAX the addition overflows:
\* a build with overflow checks (checked) panics there, even after the last
\* record, and a build without them wraps to 0.
RECURSIVE GenerateLoop(_, _, _, _)
GenerateLoop(left, i, keyvec, checked) ==
    IF left = 0 THEN [status |-> "ok", records |-> keyvec]
    ELSE IF i = U32Max /\ checked THEN [status |-> "panic", records |-> <<>>]
    ELSE GenerateLoop(left - 1, U32Next(i),
                      Append(keyvec, PreKeyRecordNew(i, 300 + Len(keyvec))), checked)

\* generate_n_prekeys(n, id)
GenerateNPrekeys(n, id, checked) == GenerateLoop(n, id, <<>>, checked)

\* The batches asked for: up to MaxGenerated records, from ids at the start
\* and at the end of the 32 bits.
MaxGenerated == 3
PreKeyIdStarts ==
    { <<0, 1>>, <<0, HalfWord - 1>>, <<HalfWord - 1, HalfWord - 3>>,
      <<HalfWord - 1, HalfWord - 2>>, U32Max }

CxGenerateNPrekeys ==
    /\ cx.op = "none"
    /\ \E n \in 0..MaxGenerated, id \in PreKeyIdStarts, checked \in BOOLEAN :
       \E r \in {GenerateNPrekeys(n, id, checked)} :
         cx' = [cx EXCEPT !.op = "generate_n_prekeys", !.given = Some(<<n, id>>),
                          !.status = r.status, !.generated = r.records,
                          !.checked = checked]
    /\ UNCHANGED <<mainVars, rat, cv, grp, thr, rec>>

\* message_type() on a message of one of the three classes
CxMessageType ==
    /\ cx.op = "none"
    /\ \E v \in CiphertextVariants :
         cx' = [cx EXCEPT !.op = "message_type", !.variant = v,
                          !.value = Some(MessageType(v))]
    /\ UNCHANGED <<mainVars, rat, cv, grp, thr, rec>>

\* UnidentifiedSenderMessageContent(msg_type_value, ...) for the message
\* whose type was asked
CxUsmcNew ==
    /\ cx.op = "message_type"
    /\ \E n \in MessageTypeValues, p \in Parties :
       \E r \in {UsmcNew(n, GoodCertificate(p), cx.variant)} :
         cx' = [cx EXCEPT !.op = "usmc_new", !.fed = Some(n), !.status = r.status,
                          !.text = r.text, !.usmc = r.usmc]
    /\ UNCHANGED <<mainVars, rat, cv, grp, thr, rec>>

\* msg_type() on the content just built
CxMsgType ==
    /\ cx.op = "usmc_new" /\ cx.status = "ok"
    /\ cx' = [cx EXCEPT !.op = "msg_type", !.reported = Some(UsmcMsgType(Get(cx.usmc)))]
    /\ UNCHANGED <<mainVars, rat, cv, grp, thr, rec>>

\* The one-time prekeys a caller may hand to PreKeyBundle::new for q.
BundlePreKeyArguments(q) == {None} \cup { Some(OneTimeKeyOf(q, id)) : id \in 1..2 }

\* PreKeyBundle(...) for the published keys of a party
CxBundleNew ==
    /\ cx.op = "none"
    /\ \E q \in Parties, id \in 1..3 :
       \E signer \in {IdentityOf[q], IdentityOf.stranger}, preKey \in BundlePreKeyArguments(q) :
       \E r \in {PreKeyBundleFromArguments(RegistrationOf[q], id, preKey, 1, SignedKeyOf(q, 1),
                                           Sign(signer, SignedKeyOf(q, 1)), IdentityOf[q])} :
         cx' = [cx EXCEPT !.op = "bundle_new", !.given = Some(preKey), !.status = r.status,
                          !.text = IF r.status = "ok" THEN "" ELSE "todo",
                          !.bundle = r.bundle]
    /\ UNCHANGED <<mainVars, rat, cv, grp, thr, rec>>

\* pre_key_id() and pre_key_public() on the bundle just built
CxBundlePreKey ==
    /\ cx.op = "bundle_new" /\ cx.status = "ok"
    /\ cx' = [cx EXCEPT !.op = "bundle_pre_key",
                        !.pre_key_id = Some(BundlePreKeyId(Get(cx.bundle))),
                        !.pre_key_public = Some(BundlePreKeyPublic(Get(cx.bundle)))]
    /\ UNCHANGED <<mainVars, rat, cv, grp, thr, rec>>

(***************************************************************************)
(* group_cipher.rs: the sender-key record behind the four functions        *)
(* (libsignal_protocol::SenderKeyRecord, SenderKeyState, SenderChainKey)   *)
(***************************************************************************)

SenderKeyMessageCurrentVersion == 3
MaxSenderKeyStates == 5

\* MyUuid::new: every distribution id the binding builds is this one uuid.
DistributionId == Get(UuidParse(UuidText1))

\* SenderChainKey: the iteration and the key bytes, which are the chain's
\* first bytes stepped that many times.
StepSeed(seed, n) == [seed EXCEPT !.step = seed.step + n]
SenderChainKeyNew(iteration, chainKey) == [seed |-> chainKey,
                                           iteration |-> iteration]
SenderChainKeyNext(chainKey) ==
    [seed |-> StepSeed(chainKey.seed, 1),
     iteration |-> chainKey.iteration + 1]

\* SenderChainKey::sender_message_key
SenderMessageKey(chainKey) == [iteration |-> chainKey.iteration, cipher |-> chainKey.seed]

\* SenderKeyState::new
SenderKeyStateNew(version, chainId, iteration, chainKey, signingPublic, signingPrivate) ==
    [message_version |-> version,
     chain_id |-> chainId,
     chain_key |-> SenderChainKeyNew(iteration, chainKey),
     signing_public |-> signingPublic,
     signing_private |-> signingPrivate,
     message_keys |-> <<>>]

\* The positions of the states of a record.
StatesOfChain(record, chainId) ==
    { i \in 1..Len(record) : record[i].chain_id = chainId }
StatesOfChainAndKey(record, chainId, signingPublic) ==
    { i \in StatesOfChain(record, chainId) : record[i].signing_public = signingPublic }

\* SelectSeq without a lambda: the states of other chains, in order.
RECURSIVE WithoutChain(_, _)
WithoutChain(record, chainId) ==
    IF record = <<>> THEN <<>>
    ELSE IF Head(record).chain_id = chainId THEN WithoutChain(Tail(record), chainId)
    ELSE <<Head(record)>> \o WithoutChain(Tail(record), chainId)

\* SenderKeyRecord::add_sender_key_state always starting the chain anew.
AddSenderKeyStateAnew(record, version, chainId, iteration, chainKey, signingPublic, signingPrivate) ==
    LET found == StatesOfChainAndKey(record, chainId, signingPublic)
        state == IF found # {}
                 THEN [record[Min(found)] EXCEPT
                          !.chain_key = SenderChainKeyNew(iteration, chainKey),
                          !.message_keys = <<>>]
                 ELSE SenderKeyStateNew(version, chainId, iteration, chainKey,
                                        signingPublic, signingPrivate)
    IN  <<state>> \o WithoutChain(record, chainId)

\* SenderKeyRecord::add_sender_key_state: a state the record already has
\* for the chain id and signing key is kept as it is, every other state of
\* the chain id is dropped, and the state goes to the front, the oldest
\* states dropped to make room.
AddSenderKeyState(record, version, chainId, iteration, chainKey, signingPublic, signingPrivate) ==
    LET found == StatesOfChainAndKey(record, chainId, signingPublic)
        state == IF found # {} THEN record[Min(found)]
                 ELSE SenderKeyStateNew(version, chainId, iteration, chainKey,
                                        signingPublic, signingPrivate)
        others == WithoutChain(record, chainId)
        kept == IF Len(others) >= MaxSenderKeyStates
                THEN SubSeq(others, 1, MaxSenderKeyStates - 1) ELSE others
    IN  <<state>> \o kept

\* The loop of get_sender_key without its add_sender_message_key.
SkippedSenderKeysDropped(state, iteration) == state.message_keys

\* SenderKeyState::add_sender_message_key for every iteration from the
\* chain's up to the one before the wanted: each key is appended and the
\* oldest key dropped while the cache is past the maximum.  What the loop
\* leaves is written here directly: the last keys of the old cache that
\* still have room, then the newest of the added keys.
SkippedSenderKeys(state, iteration) ==
    LET count == iteration - state.chain_key.iteration
        kept == IF count > MaxMessageKeys THEN MaxMessageKeys ELSE count
        old == state.message_keys
        room == MaxMessageKeys - kept
    IN  (IF Len(old) > room THEN SubSeq(old, Len(old) - room + 1, Len(old)) ELSE old)
        \o [j \in 1..kept |->
               [iteration |-> iteration - kept + j - 1,
                cipher |-> StepSeed(state.chain_key.seed, count - kept + j - 1)]]

\* The cached message keys of an iteration.
SenderKeysAt(state, iteration) ==
    { i \in 1..Len(state.message_keys) : state.message_keys[i].iteration = iteration }

\* A slip in remove_sender_message_key: the key handed out stays cached.
SenderMessageKeyLeft(state, i) == state

\* SenderKeyState::remove_sender_message_key: the key at position i leaves
\* the cache.
RemoveSenderMessageKey(state, i) == [state EXCEPT !.message_keys = RemoveAt(@, i)]

\* The test of get_sender_key on the distance ahead, left out.
ForwardJumpUnchecked(state, iteration) == FALSE

\* get_sender_key: a message further ahead of the chain than
\* MAX_FORWARD_JUMPS is refused before any key is derived.
ForwardJumpTooFar(state, iteration) ==
    iteration - state.chain_key.iteration > MaxForwardJumps

\* get_sender_key: a cached key for an iteration behind the chain (taken
\* out of the cache), a duplicate when there is none; ahead of the chain the
\* keys in between are cached and the chain is left one past the iteration,
\* unless the jump is longer than the maximum.
GetSenderKey(state, iteration) ==
    IF state.chain_key.iteration > iteration
    THEN IF SenderKeysAt(state, iteration) = {}
         THEN [state |-> state,
               status |-> "err",
               kind |-> "DuplicatedMessage",
               key |-> None]
         ELSE [state |-> RemoveSenderMessageKey(state, Min(SenderKeysAt(state, iteration))),
               status |-> "ok",
               kind |-> "none",
               key |-> Some(state.message_keys[Min(SenderKeysAt(state, iteration))])]
    ELSE IF ForwardJumpTooFar(state, iteration)
    THEN [state |-> state,
          status |-> "err",
          kind |-> "InvalidMessage",
          key |-> None]
    ELSE [state |-> [state EXCEPT
                        !.message_keys = SkippedSenderKeys(state, iteration),
                        !.chain_key = [seed |-> StepSeed(state.chain_key.seed,
                                                    iteration + 1 - state.chain_key.iteration),
                                       iteration |-> iteration + 1]],
          status |-> "ok",
          kind |-> "none",
          key |-> Some([iteration |-> iteration,
                        cipher |-> StepSeed(state.chain_key.seed,
                                            iteration - state.chain_key.iteration)])]

\* What the signature of a SenderKeyMessage covers: everything else.
SenderKeyMessageBody(msg) ==
    <<msg.message_version, msg.distribution_id, msg.chain_id, msg.iteration, msg.ciphertext>>

\* SenderKeyMessage::new with a signature that ignores the generator.
SenderKeyMessageDataFixed(version, distributionId, chainId, iteration, ciphertext, csprng, signingPrivate) ==
    [signature |-> SignRandom(signingPrivate,
                              <<version, distributionId, chainId, iteration, ciphertext>>, 0),
     distribution_id |-> distributionId,
     message_version |-> version,
     iteration |-> iteration,
     chain_id |-> chainId,
     ciphertext |-> ciphertext]

\* libsignal's SenderKeyMessage::new on a parsed UUID: the message is
\* signed when it is built, with bytes drawn from the generator it is
\* given, and keeps its serialized form from then on.
SenderKeyMessageData(version, distributionId, chainId, iteration, ciphertext, csprng, signingPrivate) ==
    [signature |-> SignRandom(signingPrivate,
                              <<version, distributionId, chainId, iteration, ciphertext>>,
                              csprng),
     distribution_id |-> distributionId,
     message_version |-> version,
     iteration |-> iteration,
     chain_id |-> chainId,
     ciphertext |-> ciphertext]

\* SenderKeyMessage::verify_signature
SenderKeyVerifySignature(msg, signingPublic) ==
    VerifySignature(signingPublic, SenderKeyMessageBody(msg), msg.signature)

\* SenderKeyMessage(message_version, distribution_id, key_id, iteration,
\* ciphertext, signature_key) of the binding: the distribution id is a
\* string, parsed with Uuid::parse_str(..).unwrap(), which panics on a
\* string that is no UUID; csprng is what OsRng hands out during the call.
SenderKeyMessageNew(message_version, distribution_id, key_id, iteration, ciphertext, signature_key, csprng) ==
    IF ~IsSome(UuidParse(distribution_id))
    THEN [msg |-> None,
          status |-> "panic",
          kind |-> "PanicException"]
    ELSE [msg |-> Some(SenderKeyMessageData(message_version, Get(UuidParse(distribution_id)),
                                            key_id, iteration, ciphertext, csprng,
                                            signature_key)),
          status |-> "ok",
          kind |-> "none"]

\* libsignal's SenderKeyDistributionMessage::new on a parsed UUID
SenderKeyDistributionMessageData(version, distributionId, chainId, iteration, chainKey, signingPublic) ==
    [distribution_id |-> distributionId,
     message_version |-> version,
     iteration |-> iteration,
     chain_id |-> chainId,
     chain_key |-> chainKey,
     signing_key |-> signingPublic]

\* SenderKeyDistributionMessage(message_version, distribution_id, id,
\* iteration, chain_key, signing_key) of the binding, parsing the
\* distribution id the same way.
SenderKeyDistributionMessageNew(message_version, distribution_id, id, iteration, chain_key, signing_key) ==
    IF ~IsSome(UuidParse(distribution_id))
    THEN [msg |-> None,
          status |-> "panic",
          kind |-> "PanicException"]
    ELSE [msg |-> Some(SenderKeyDistributionMessageData(
                           message_version, Get(UuidParse(distribution_id)), id, iteration,
                           chain_key, signing_key)),
          status |-> "ok",
          kind |-> "none"]

GroupFailed(kind, st) ==
    [store |-> st,
     msg |-> None,
     status |-> "err",
     kind |-> kind,
     ptext |-> None]

\* create_sender_key_distribution_message(sender, distribution_id, store):
\* a store without a record for the sender gets one with a fresh chain at
\* iteration 0; the message publishes the chain where it stands.
CreateSenderKeyDistributionMessageCore(st, chainId, chainKey, signingKey) ==
    LET record == IF IsSome(st) THEN Get(st)
                  ELSE AddSenderKeyState(<<>>, SenderKeyMessageCurrentVersion, chainId, 0,
                                         chainKey, signingKey, Some(signingKey))
    IN  IF record = <<>> THEN GroupFailed("InvalidSenderKeySession", st)
        ELSE [store |-> Some(record),
              msg |-> Some(SenderKeyDistributionMessageData(
                               record[1].message_version, DistributionId, record[1].chain_id,
                               record[1].chain_key.iteration, record[1].chain_key.seed,
                               record[1].signing_public)),
              status |-> "ok",
              kind |-> "none",
              ptext |-> None]

\* process_sender_key_distribution_message(sender, skdm, store)
ProcessSenderKeyDistributionMessageCore(st, skdm) ==
    [store |-> Some(AddSenderKeyState(IF IsSome(st) THEN Get(st) ELSE <<>>,
                                      skdm.message_version, skdm.chain_id, skdm.iteration,
                                      skdm.chain_key, skdm.signing_key, None)),
     msg |-> None,
     status |-> "ok",
     kind |-> "none",
     ptext |-> None]

\* The step of group_encrypt that moves the chain on, left out.
EncryptChainKept(chainKey) == chainKey

\* The chain key group_encrypt stores after it has built the message.
EncryptChainNext(chainKey) == SenderChainKeyNext(chainKey)

\* group_encrypt(store, sender, distribution_id, plaintext): the message is
\* built under the message key of the front state's chain and signed with
\* its private signing key; the chain moves one step and the record is
\* stored.
GroupEncryptCore(st, ptext, csprng) ==
    IF ~IsSome(st) THEN GroupFailed("NoSenderKeyState", st)
    ELSE IF Get(st) = <<>> THEN GroupFailed("InvalidSenderKeySession", st)
    ELSE IF ~IsSome(Get(st)[1].signing_private)
    THEN GroupFailed("InvalidSenderKeySession", st)
    ELSE [store |-> Some([Get(st) EXCEPT ![1].chain_key = EncryptChainNext(@)]),
          msg |-> Some(SenderKeyMessageData(
                           Get(st)[1].message_version, DistributionId, Get(st)[1].chain_id,
                           Get(st)[1].chain_key.iteration,
                           [key |-> SenderMessageKey(Get(st)[1].chain_key).cipher,
                            pt |-> ptext],
                           csprng, Get(Get(st)[1].signing_private))),
          status |-> "ok",
          kind |-> "none",
          ptext |-> None]

\* The signature test of group_decrypt, left out.
SenderKeySignatureUnchecked(msg, state) == TRUE

\* The signature test of group_decrypt, under the state's signing key.
SenderKeySignatureVerifies(msg, state) ==
    SenderKeyVerifySignature(msg, state.signing_public)

\* The end of group_decrypt on the outcome k of get_sender_key for the
\* state at position i: the ciphertext is decrypted under the key and the
\* record stored.
GroupDecrypted(st, msg, i, k) ==
    IF k.status # "ok" THEN GroupFailed(k.kind, st)
    ELSE IF msg.ciphertext.key # Get(k.key).cipher THEN GroupFailed("InvalidMessage", st)
    ELSE [store |-> Some([Get(st) EXCEPT ![i] = k.state]),
          msg |-> None,
          status |-> "ok",
          kind |-> "none",
          ptext |-> Some(msg.ciphertext.pt)]

\* group_decrypt(skm_bytes, store, sender): the record of the message's
\* distribution id, its state for the message's chain id, the version, the
\* signature, and then the key.
GroupDecryptCore(st, msg) ==
    IF ~IsSome(st) THEN GroupFailed("NoSenderKeyState", st)
    ELSE IF StatesOfChain(Get(st), msg.chain_id) = {} THEN GroupFailed("NoSenderKeyState", st)
    ELSE IF msg.message_version # Get(st)[Min(StatesOfChain(Get(st), msg.chain_id))].message_version
    THEN GroupFailed("UnrecognizedMessageVersion", st)
    ELSE IF ~SenderKeySignatureVerifies(msg, Get(st)[Min(StatesOfChain(Get(st), msg.chain_id))])
    THEN GroupFailed("SignatureValidationFailed", st)
    ELSE GroupDecrypted(st, msg, Min(StatesOfChain(Get(st), msg.chain_id)),
                        GetSenderKey(Get(st)[Min(StatesOfChain(Get(st), msg.chain_id))],
                                     msg.iteration))

(***************************************************************************)
(* SpecGroup: one sender, one receiver and the calls of group_cipher.rs    *)
(***************************************************************************)

MaxGroupSent == 3
MaxDistributions == 2

\* S sends to the group under its address, R receives; both stores are
\* keyed by (S's address, DistributionId).
GroupParties == {"S", "R"}
\* The plaintext of the sender's n-th message.
GroupPlaintextOf(n) == <<"plaintext", n>>

\* What the random generator gives create_sender_key_distribution_message:
\* the chain id, the first chain key and the signing key pair.  ForgerKey
\* is a signing key that is not the sender's.
GroupChainId == 7
GroupChainKey == [step |-> 0,
                  rand |-> 300]
GroupSigningKey == 81
ForgerKey == 82

GroupOpIdle ==
    [msg |-> None,
     status |-> "ok",
     kind |-> "none",
     op |-> "none",
     party |-> "S",
     ptext |-> None,
     given |-> None,
     unchanged |-> TRUE,
     before |-> None,
     after |-> None,
     replay |-> FALSE,
     signed |-> FALSE]

\* opened holds the messages a group_decrypt has decrypted, skipped the
\* runs of iterations <<from, to>> a group_decrypt has stepped over,
\* encrypts counts the messages group_encrypt has built, and reprocessed
\* holds the messages that were decrypted before the receiver processed a
\* distribution message again.
GrpIdle ==
    [skipped |-> {},
     stores |-> [p \in GroupParties |-> None],
     skdms |-> {},
     msgs |-> {},
     opened |-> {},
     encrypts |-> 0,
     last |-> GroupOpIdle,
     reprocessed |-> {}]

\* The iteration a store's record stands at: of its front state, and of
\* its state for a chain id.
FrontIteration(st) ==
    IF IsSome(st) /\ Get(st) # <<>> THEN Some(Get(st)[1].chain_key.iteration) ELSE None
ChainIteration(st, chainId) ==
    IF IsSome(st) /\ StatesOfChain(Get(st), chainId) # {}
    THEN Some(Get(st)[Min(StatesOfChain(Get(st), chainId))].chain_key.iteration)
    ELSE None

\* Whether a message's signature verifies under the signing key the store
\* holds for the message's chain id.
SignedForStore(st, msg) ==
    /\ IsSome(st) /\ StatesOfChain(Get(st), msg.chain_id) # {}
    /\ SenderKeyVerifySignature(msg,
           Get(st)[Min(StatesOfChain(Get(st), msg.chain_id))].signing_public)

\* create_sender_key_distribution_message(sender, distribution_id, store)
CreateSenderKeyDistributionMessage(p) ==
    /\ Cardinality(grp.skdms) < MaxDistributions
    /\ \E r \in {CreateSenderKeyDistributionMessageCore(grp.stores[p], GroupChainId,
                                                        GroupChainKey, GroupSigningKey)} :
         grp' = [grp EXCEPT
                   !.stores[p] = r.store,
                   !.skdms = IF r.status = "ok" THEN @ \cup {Get(r.msg)} ELSE @,
                   !.last = [GroupOpIdle EXCEPT
                               !.op = "create_sender_key_distribution_message",
                               !.party = p, !.status = r.status, !.kind = r.kind,
                               !.msg = r.msg,
                               !.before = FrontIteration(grp.stores[p]),
                               !.after = FrontIteration(r.store),
                               !.unchanged = (r.store = grp.stores[p])]]
    /\ UNCHANGED <<mainVars, rat, cv, cx, thr, rec>>

\* process_sender_key_distribution_message(sender, skdm, store)
ProcessSenderKeyDistributionMessage(p, skdm) ==
    /\ \E r \in {ProcessSenderKeyDistributionMessageCore(grp.stores[p], skdm)} :
         grp' = [grp EXCEPT
                   !.stores[p] = r.store,
                   !.reprocessed = IF p = "R" THEN @ \cup grp.opened ELSE @,
                   !.last = [GroupOpIdle EXCEPT
                               !.op = "process_sender_key_distribution_message",
                               !.party = p, !.status = r.status, !.kind = r.kind,
                               !.given = Some(skdm),
                               !.before = ChainIteration(grp.stores[p], skdm.chain_id),
                               !.after = ChainIteration(r.store, skdm.chain_id),
                               !.unchanged = (r.store = grp.stores[p])]]
    /\ UNCHANGED <<mainVars, rat, cv, cx, thr, rec>>

\* group_encrypt(store, sender, distribution_id, plaintext)
GroupEncrypt(p, ptext) ==
    /\ grp.encrypts < MaxGroupSent
    /\ \E r \in {GroupEncryptCore(grp.stores[p], ptext, RandomOf(grp.encrypts + 1))} :
         grp' = [grp EXCEPT
                   !.stores[p] = r.store,
                   !.msgs = IF r.status = "ok" THEN @ \cup {Get(r.msg)} ELSE @,
                   !.encrypts = IF r.status = "ok" THEN @ + 1 ELSE @,
                   !.last = [GroupOpIdle EXCEPT
                               !.op = "group_encrypt",
                               !.party = p, !.status = r.status, !.kind = r.kind,
                               !.msg = r.msg,
                               !.before = FrontIteration(grp.stores[p]),
                               !.after = FrontIteration(r.store),
                               !.unchanged = (r.store = grp.stores[p])]]
    /\ UNCHANGED <<mainVars, rat, cv, cx, thr, rec>>

\* A message signed again by a key that is not the sender's.
Resigned(msg) ==
    [msg EXCEPT !.signature = SignRandom(ForgerKey, SenderKeyMessageBody(msg), @.nonce)]

\* The iterations of messages the sender builds long after the ones the
\* receiver has seen: one past the cache of skipped keys, and one past the
\* longest jump from iteration 0.
LaterIterations == {MaxMessageKeys + 1, MaxForwardJumps + 1}

\* The message group_encrypt builds when the sender's chain, as stored in
\* st, has reached the iteration.
LaterMessage(st, iteration) ==
    SenderKeyMessageData(Get(st)[1].message_version, DistributionId, Get(st)[1].chain_id,
                         iteration,
                         [key |-> StepSeed(Get(st)[1].chain_key.seed,
                                           iteration - Get(st)[1].chain_key.iteration),
                          pt |-> "later"],
                         RandomOf(iteration), Get(Get(st)[1].signing_private))

\* The messages a receiver can be handed: the sender's messages so far,
\* the same signed by another key, and later messages of the sender.
GroupDeliveries ==
    grp.msgs \cup { Resigned(m) : m \in grp.msgs }
    \cup (IF IsSome(FrontIteration(grp.stores["S"]))
          THEN { LaterMessage(grp.stores["S"], i) : i \in LaterIterations } ELSE {})

\* The run of iterations a successful group_decrypt stepped over.
SkippedRun(before, msg) ==
    IF IsSome(before) /\ Get(before) < msg.iteration
    THEN {<<Get(before), msg.iteration>>} ELSE {}

\* group_decrypt(skm_bytes, store, sender)
GroupDecrypt(p, msg) ==
    /\ \E r \in {GroupDecryptCore(grp.stores[p], msg)} :
         grp' = [grp EXCEPT
                   !.stores[p] = r.store,
                   !.opened = IF r.status = "ok" THEN @ \cup {msg} ELSE @,
                   !.skipped = IF r.status = "ok"
                               THEN @ \cup SkippedRun(ChainIteration(grp.stores[p], msg.chain_id),
                                                      msg)
                               ELSE @,
                   !.last = [GroupOpIdle EXCEPT
                               !.op = "group_decrypt",
                               !.party = p, !.status = r.status, !.kind = r.kind,
                               !.ptext = r.ptext,
                               !.given = Some(msg),
                               !.before = ChainIteration(grp.stores[p], msg.chain_id),
                               !.after = ChainIteration(r.store, msg.chain_id),
                               !.replay = (msg \in grp.opened),
                               !.signed = SignedForStore(grp.stores[p], msg),
                               !.unchanged = (r.store = grp.stores[p])]]
    /\ UNCHANGED <<mainVars, rat, cv, cx, thr, rec>>

GroupNext ==
    \/ CreateSenderKeyDistributionMessage("S")
    \/ \E p \in GroupParties : \E skdm \in grp.skdms :
          ProcessSenderKeyDistributionMessage(p, skdm)
    \/ GroupEncrypt("S", GroupPlaintextOf(grp.encrypts + 1))
    \/ \E msg \in GroupDeliveries : GroupDecrypt("R", msg)

(***************************************************************************)
(* SpecThreads: Python threads calling group_cipher.rs on one store        *)
(***************************************************************************)

MaxCalls == 3

Threads == {"T1", "T2"}
GroupOps == {"create_sender_key_distribution_message", "group_encrypt"}
SessionOps == {"sealed_sender_encrypt", "sealed_sender_decrypt"}
ThreadOps == GroupOps \cup SessionOps

\* The store a session call works on: the initiator seals for the
\* responder's address, the responder opens what came from the
\* initiator's.
ThrParty(op) == IF op = "sealed_sender_decrypt" THEN "B" ELSE "A"

\* gil is the thread inside a function of the binding, store the sender-key
\* record of the one key (the sessions are in the stores of the parties),
\* and per thread: where its call stands, the ciphertext it was given, the
\* store or record it loaded and what it is about to return.  emitted and
\* reads note, per finished group_encrypt, the message and the stored record
\* the call had read; sealed and sessionReads the same per finished
\* sealed_sender_encrypt and per finished session call; opened holds the
\* ciphertexts a sealed_sender_decrypt has decrypted.  stores, seals and
\* opens count the records written by group_encrypt, sealed_sender_encrypt
\* and sealed_sender_decrypt.
ThrIdle ==
    [store |-> None,
     op |-> [t \in Threads |-> "none"],
     loaded |-> [t \in Threads |-> None],
     stores |-> 0,
     opened |-> {},
     gil |-> None,
     pc |-> [t \in Threads |-> "idle"],
     out |-> [t \in Threads |-> None],
     calls |-> [t \in Threads |-> 0],
     emitted |-> {},
     reads |-> {},
     arg |-> [t \in Threads |-> None],
     seals |-> 0,
     opens |-> 0,
     sealed |-> {},
     sessionReads |-> {}]

\* A binding in which the interpreter lock is released around block_on.
GilReleased == TRUE

\* A #[pyfunction] runs with the interpreter lock held from its entry to its
\* return (none of them calls allow_threads, and block_on runs the upstream
\* future on the calling thread): a thread enters a function only while no
\* other thread is inside one.
GilAvailable == thr.gil = None

\* The main thread, before it starts the others, stores the responder's
\* prekeys and gives the initiator a session with the responder; it may
\* also create the sender key the threads will encrypt with.
ThrSetup ==
    /\ \A t \in Threads : thr.calls[t] = 0
    /\ \/ /\ thr.store = None
          /\ thr' = [thr EXCEPT !.store = CreateSenderKeyDistributionMessageCore(
                                              None, GroupChainId, GroupChainKey,
                                              GroupSigningKey).store]
          /\ UNCHANGED <<mainVars, rat, cv, cx, grp, rec>>
       \/ /\ store["B"].pre_keys[1] = None
          /\ SavePreKey("B", 1)
       \/ /\ store["B"].pre_keys[1] # None /\ store["B"].signed_pre_keys[1] = None
          /\ SaveSignedPreKey("B", 1)
       \/ /\ store["B"].signed_pre_keys[1] # None /\ ~IsSome(LoadSession(store["A"], "B"))
          /\ \E b \in BundlesOf("B") :
                /\ BundleSignatureVerifies(b) /\ b.identity_key = IdentityOf["B"]
                /\ ProcessPreKeyBundle("A", b)

\* What a call can be given: sealed_sender_decrypt a ciphertext that a
\* sealed_sender_encrypt returned.
ThrArgs(op) ==
    IF op = "sealed_sender_decrypt" THEN { Some(e.env) : e \in thr.sealed } ELSE {None}

\* A thread calls one of the functions; the session calls once the
\* initiator has its session.
ThrEnter(t, op, arg) ==
    /\ thr.pc[t] = "idle" /\ thr.calls[t] < MaxCalls
    /\ GilAvailable
    /\ op \in SessionOps => IsSome(LoadSession(store["A"], "B"))
    /\ op = "sealed_sender_decrypt" => nextKey <= MaxKeys
    /\ thr' = [thr EXCEPT !.gil = Some(t), !.pc[t] = "entered", !.op[t] = op,
                          !.calls[t] = @ + 1, !.arg[t] = arg]
    /\ UNCHANGED <<mainVars, rat, cv, cx, grp, rec>>

\* load_sender_key or load_session inside the upstream function: a copy of
\* what is stored.
ThrLoad(t) ==
    /\ thr.pc[t] = "entered"
    /\ thr' = [thr EXCEPT !.pc[t] = "loaded",
                          !.loaded[t] = IF thr.op[t] \in SessionOps
                                        THEN Some(store[ThrParty(thr.op[t])])
                                        ELSE Some(thr.store)]
    /\ UNCHANGED <<mainVars, rat, cv, cx, grp, rec>>

\* The outcome of the call on what the thread loaded.
ThrOutcome(t) ==
    CASE thr.op[t] = "group_encrypt" ->
             GroupEncryptCore(Get(thr.loaded[t]), <<"plaintext", t, thr.calls[t]>>,
                              RandomOf(thr.stores + 1))
      [] thr.op[t] = "create_sender_key_distribution_message" ->
             CreateSenderKeyDistributionMessageCore(Get(thr.loaded[t]), GroupChainId,
                                                    GroupChainKey, GroupSigningKey)
      [] thr.op[t] = "sealed_sender_encrypt" ->
             SealedSenderEncryptCore(Get(thr.loaded[t]), "A", "B", GoodCertificate("A"),
                                     <<"plaintext", t, thr.calls[t]>>)
      [] thr.op[t] = "sealed_sender_decrypt" ->
             SealedSenderDecryptCore(Get(thr.loaded[t]), "B", Get(thr.arg[t]),
                                     CertKeys.trust_root, CertExpiration, FreshKey(nextKey))

\* store_sender_key or store_session inside the upstream function, when the
\* call got that far.
ThrStore(t) ==
    /\ thr.pc[t] = "loaded"
    /\ \E r \in {ThrOutcome(t)} :
         /\ thr' = [thr EXCEPT
                      !.pc[t] = "stored",
                      !.store = IF r.status = "ok" /\ thr.op[t] \in GroupOps
                                THEN r.store ELSE @,
                      !.stores = IF r.status = "ok" /\ thr.op[t] = "group_encrypt"
                                 THEN @ + 1 ELSE @,
                      !.seals = IF r.status = "ok" /\ thr.op[t] = "sealed_sender_encrypt"
                                THEN @ + 1 ELSE @,
                      !.opens = IF r.status = "ok" /\ thr.op[t] = "sealed_sender_decrypt"
                                THEN @ + 1 ELSE @,
                      !.opened = IF r.status = "ok" /\ thr.op[t] = "sealed_sender_decrypt"
                                 THEN @ \cup {Get(thr.arg[t])} ELSE @,
                      !.out[t] = Some(r)]
         /\ store' = IF r.status = "ok" /\ thr.op[t] \in SessionOps
                     THEN [store EXCEPT ![ThrParty(thr.op[t])] = r.store]
                     ELSE store
         /\ nextKey' = IF /\ r.status = "ok" /\ thr.op[t] = "sealed_sender_decrypt"
                          /\ TookFreshKey(r.store, "A", FreshKey(nextKey))
                       THEN nextKey + 1 ELSE nextKey
    /\ UNCHANGED <<held, net, lastOp, used, delivered, sync, rat, cv, cx, grp, rec>>

\* The function returns to the interpreter.
ThrReturn(t) ==
    /\ thr.pc[t] = "stored"
    /\ \E ok \in {Get(thr.out[t]).status = "ok"} :
       thr' = [thr EXCEPT
                 !.pc[t] = "idle",
                 !.gil = IF @ = Some(t) THEN None ELSE @,
                 !.loaded[t] = None,
                 !.out[t] = None,
                 !.arg[t] = None,
                 !.emitted = IF ok /\ thr.op[t] = "group_encrypt"
                             THEN @ \cup {[msg |-> Get(Get(thr.out[t]).msg),
                                           thread |-> t,
                                           call |-> thr.calls[t]]}
                             ELSE @,
                 !.reads = IF ok /\ thr.op[t] = "group_encrypt"
                           THEN @ \cup {[record |-> Get(thr.loaded[t]),
                                         thread |-> t,
                                         call |-> thr.calls[t]]}
                           ELSE @,
                 !.sealed = IF ok /\ thr.op[t] = "sealed_sender_encrypt"
                            THEN @ \cup {[env |-> Get(Get(thr.out[t]).env),
                                          thread |-> t,
                                          call |-> thr.calls[t]]}
                            ELSE @,
                 !.sessionReads = IF ok /\ thr.op[t] \in SessionOps
                                  THEN @ \cup {[record |-> LoadSession(
                                                               Get(thr.loaded[t]),
                                                               Other(ThrParty(thr.op[t]))),
                                                op |-> thr.op[t],
                                                thread |-> t,
                                                call |-> thr.calls[t]]}
                                  ELSE @]
    /\ UNCHANGED <<mainVars, rat, cv, cx, grp, rec>>

ThreadsNext ==
    \/ ThrSetup
    \/ \E t \in Threads, op \in ThreadOps : \E arg \in ThrArgs(op) : ThrEnter(t, op, arg)
    \/ \E t \in Threads : ThrLoad(t)
    \/ \E t \in Threads : ThrStore(t)
    \/ \E t \in Threads : ThrReturn(t)

(***************************************************************************)
(* SpecCodec: messages built twice from the same arguments and serialized  *)
(***************************************************************************)

\* SignalMessage::serialized: the version byte, the encoded fields and the
\* MAC, all of them functions of the message's content.
SignalMessageSerialized(msg) ==
    <<msg.version, msg.ratchet, msg.counter, msg.previous_counter, msg.body, msg.mac>>

\* What the random generator of a constructor can hand out.
RandomDraws == {1, 2}

\* SenderKeyMessage::serialized: the version byte, the encoded fields and
\* the signature the message was built with.
SenderKeyMessageSerialized(msg) ==
    <<msg.message_version, msg.distribution_id, msg.chain_id, msg.iteration,
      msg.ciphertext, msg.signature>>

\* The constructor calls of the scenario, on the arguments the caller
\* chose.
CxSignalMessage(counter, ptext, p) ==
    SignalMessageNew(SessionVersion,
                     [role |-> "msg", sec |-> <<>>, dh |-> <<>>, idx |-> counter],
                     FreshKey(1), counter, 0, ptext, IdentityOf[p], IdentityOf[Other(p)])
CxSenderKeyMessage(distribution_id, iteration, ptext, csprng) ==
    SenderKeyMessageNew(SenderKeyMessageCurrentVersion, distribution_id, GroupChainId,
                        iteration, ptext, GroupSigningKey, csprng)

\* SignalMessage(...), serialized
CxSignalMessageNew ==
    /\ cx.op = "none"
    /\ \E counter \in 0..1, ptext \in Plaintexts, p \in Parties :
         cx' = [cx EXCEPT !.op = "signal_message_new",
                          !.given = Some(<<counter, ptext, p>>),
                          !.built = Some(CxSignalMessage(counter, ptext, p)),
                          !.first = Some(SignalMessageSerialized(
                                             CxSignalMessage(counter, ptext, p)))]
    /\ UNCHANGED <<mainVars, rat, cv, grp, thr, rec>>

\* A second SignalMessage(...) with the arguments of the first, serialized
CxSignalMessageNewAgain ==
    /\ cx.op = "signal_message_new" /\ cx.second = None
    /\ \E args \in {Get(cx.given)} :
         cx' = [cx EXCEPT !.second = Some(SignalMessageSerialized(
                                              CxSignalMessage(args[1], args[2], args[3])))]
    /\ UNCHANGED <<mainVars, rat, cv, grp, thr, rec>>

\* SenderKeyMessage(...), serialized; the call draws from the random
\* generator.  A distribution id that is no UUID panics in the constructor
\* and nothing is built.
CxSenderKeyMessageNew ==
    /\ cx.op = "none"
    /\ \E distribution_id \in DistributionIdStrings, iteration \in 0..1, ptext \in Plaintexts,
          draw \in RandomDraws :
       \E new \in {CxSenderKeyMessage(distribution_id, iteration, ptext, draw)} :
         cx' = IF new.status # "ok"
               THEN [cx EXCEPT !.op = "sender_key_message_new",
                               !.status = new.status,
                               !.text = new.kind,
                               !.given = Some(<<distribution_id, iteration, ptext>>)]
               ELSE [cx EXCEPT !.op = "sender_key_message_new",
                               !.given = Some(<<distribution_id, iteration, ptext>>),
                               !.built = new.msg,
                               !.draws = Some(<<draw>>),
                               !.first = Some(SenderKeyMessageSerialized(Get(new.msg)))]
    /\ UNCHANGED <<mainVars, rat, cv, grp, thr, rec>>

\* A second SenderKeyMessage(...) with the arguments of the first,
\* serialized; the call draws from the random generator on its own.
CxSenderKeyMessageNewAgain ==
    /\ cx.op = "sender_key_message_new" /\ cx.status = "ok" /\ cx.second = None
    /\ \E args \in {Get(cx.given)}, draw \in RandomDraws :
       \E new \in {CxSenderKeyMessage(args[1], args[2], args[3], draw)} :
         cx' = [cx EXCEPT !.draws = Some(Append(Get(@), draw)),
                          !.second = Some(SenderKeyMessageSerialized(Get(new.msg)))]
    /\ UNCHANGED <<mainVars, rat, cv, grp, thr, rec>>

\* serialized() once more on the message object built first
CxSerializedAgain ==
    /\ cx.op \in {"signal_message_new", "sender_key_message_new"} /\ cx.status = "ok"
    /\ cx.again = None
    /\ cx' = [cx EXCEPT !.again = Some(IF cx.op = "signal_message_new"
                                       THEN SignalMessageSerialized(Get(cx.built))
                                       ELSE SenderKeyMessageSerialized(Get(cx.built)))]
    /\ UNCHANGED <<mainVars, rat, cv, grp, thr, rec>>

\* SenderKeyDistributionMessage(...)
CxSenderKeyDistributionMessageNew ==
    /\ cx.op = "none"
    /\ \E distribution_id \in DistributionIdStrings, iteration \in 0..1 :
       \E new \in {SenderKeyDistributionMessageNew(
                       SenderKeyMessageCurrentVersion, distribution_id, GroupChainId, iteration,
                       StepSeed(GroupChainKey, iteration), GroupSigningKey)} :
         cx' = [cx EXCEPT !.op = "sender_key_distribution_message_new",
                          !.status = new.status,
                          !.text = IF new.status = "ok" THEN cx.text ELSE new.kind,
                          !.given = Some(distribution_id),
                          !.built = new.msg]
    /\ UNCHANGED <<mainVars, rat, cv, grp, thr, rec>>

\* PreKeySignalMessage(...) with and without a one-time prekey id
CxPreKeySignalMessageNew ==
    /\ cx.op = "none"
    /\ \E pre_key_id \in {None} \cup {Some(i) : i \in StoreKeyIds}, p \in Parties :
       \E new \in {PreKeySignalMessageNew(
                       SessionVersion, RegistrationOf[p], pre_key_id, 1, FreshKey(1),
                       IdentityOf[p],
                       SignalMessageNew(SessionVersion,
                                        [role |-> "msg", sec |-> <<>>, dh |-> <<>>, idx |-> 0],
                                        FreshKey(1), 0, 0, "hello", IdentityOf[p],
                                        IdentityOf[Other(p)]))} :
         cx' = [cx EXCEPT !.op = "pre_key_signal_message_new",
                          !.status = new.status,
                          !.text = IF new.status = "ok" THEN cx.text ELSE new.kind,
                          !.given = Some(pre_key_id),
                          !.built = new.msg]
    /\ UNCHANGED <<mainVars, rat, cv, grp, thr, rec>>

(***************************************************************************)
(* SpecStore: the store's own calls                                        *)
(***************************************************************************)

\* load_session(address)
LoadSessionCall(p, q) ==
    /\ lastOp' = [Call("load_session", p, q) EXCEPT !.record = LoadSession(store[p], q)]
    /\ UNCHANGED <<store, held, net, nextKey, used, delivered, sync, rat, cv, cx, grp, thr, rec>>

StoreNext ==
    \/ \E p \in Responders, id \in PreKeyIds : SavePreKey(p, id)
    \/ \E p \in Responders, id \in PreKeyIds : RemovePreKey(p, id)
    \/ \E p \in Responders, id \in SignedPreKeyIds : SaveSignedPreKey(p, id)
    \/ \E p \in Responders : \E k \in {IdentityOf[Other(p)], IdentityOf.stranger} :
          SaveIdentity(p, Other(p), k)
    \/ \E p \in Initiators : \E b \in BundlesOf(Other(p)) : ProcessPreKeyBundle(p, b)
    \/ \E p \in Parties, q \in Parties : LoadSessionCall(p, q)

(***************************************************************************)
(* SpecOrder: one session's ciphertexts delivered in any order             *)
(***************************************************************************)

\* The bundles of q with q's own signature and identity key.
GenuineBundlesOf(q) ==
    { b \in BundlesOf(q) : BundleSignatureVerifies(b) /\ b.identity_key = IdentityOf[q] }

\* A sealed ciphertext with the body of its ratchet message changed after
\* the MAC was computed.
Tampered(env) ==
    [env EXCEPT !.msg = Some([Get(@) EXCEPT !.body.pt = "tampered"]),
                !.origin.ptext = None]

\* The counters of ciphertexts the sender makes much later on the same
\* sending chain: past the skipped keys a chain caches, and past the
\* counters a chain is taken forward in one call.
LaterCounters == {MaxMessageKeys + MaxSent + 1, 2 * MaxForwardJumps}

\* The ciphertext the sender of env makes at a later counter of the same
\* sending chain.
LaterEnvelope(env, counter) ==
    LET m == Get(env.msg)
    IN  [env EXCEPT !.msg = Some(SignalMessageNew(m.version,
                                                  [m.body.key EXCEPT !.idx = counter],
                                                  m.ratchet, counter, m.previous_counter,
                                                  "later", m.mac.sender, m.mac.receiver)),
                    !.origin.ptext = Some("later")]

\* The ciphertexts of the session: the ones sent so far and the later ones.
SessionEnvelopes(p) ==
    SentTo(p) \cup { LaterEnvelope(env, c) : env \in SentTo(p), c \in LaterCounters }

\* What is delivered to p: the session's ciphertexts in any order and any
\* number of times, and each of them tampered with.
OrderDeliveries(p) == SessionEnvelopes(p) \cup { Tampered(env) : env \in SessionEnvelopes(p) }

OrderNext ==
    \/ \E p \in Responders, id \in PreKeyIds : SavePreKey(p, id)
    \/ \E p \in Responders, id \in SignedPreKeyIds : SaveSignedPreKey(p, id)
    \/ \E p \in Initiators : \E b \in GenuineBundlesOf(Other(p)) : ProcessPreKeyBundle(p, b)
    \/ \E p \in Initiators, ptext \in Plaintexts :
          SealedSenderEncrypt(p, GoodCertificate(p), ptext)
    \/ \E p \in Responders : \E env \in OrderDeliveries(p) :
          SealedSenderDecrypt(p, env, CertKeys.trust_root, CertExpiration)

(***************************************************************************)
(* The store called key by key (SpecFrame, SpecSenderKeys)                 *)
(***************************************************************************)

\* The sender-key records a caller stores: an empty one and one with a state.
SenderKeyRecords ==
    { <<>>,
      <<SenderKeyStateNew(SenderKeyMessageCurrentVersion, GroupChainId, 0, GroupChainKey,
                          GroupSigningKey, Some(GroupSigningKey))>> }

\* SessionRecord.new_fresh(): the caller holds a new record.
HoldNewFresh(p) ==
    /\ held' = [held EXCEPT ![p] = Some(NewFresh)]
    /\ lastOp' = Call("new_fresh", p, p)
    /\ UNCHANGED <<store, net, nextKey, used, delivered, sync, rat, cv, cx, grp, thr, rec>>

\* get_identity_key_pair() and get_local_registration_id()
GetIdentityKeyPairCall(p) ==
    /\ lastOp' = [Call("get_identity_key_pair", p, p) EXCEPT
                    !.returned = Some(GetIdentityKeyPair(store[p]))]
    /\ UNCHANGED <<store, held, net, nextKey, used, delivered, sync, rat, cv, cx, grp, thr, rec>>
GetLocalRegistrationIdCall(p) ==
    /\ lastOp' = [Call("get_local_registration_id", p, p) EXCEPT
                    !.returned = Some(GetLocalRegistrationId(store[p]))]
    /\ UNCHANGED <<store, held, net, nextKey, used, delivered, sync, rat, cv, cx, grp, thr, rec>>

\* store_sender_key(sender, distribution_id, record)
StoreSenderKey(p, sender, distribution_id, record) ==
    /\ \E r \in {StoreSenderKeyCore(store[p], sender, distribution_id, record)} :
          /\ store' = [store EXCEPT ![p] = r.store]
          /\ lastOp' = [Call("store_sender_key", p, sender) EXCEPT
                          !.status = r.status, !.kind = r.kind,
                          !.distribution_id = distribution_id,
                          !.given = Some(record)]
    /\ UNCHANGED <<held, net, nextKey, used, delivered, sync, rat, cv, cx, grp, thr, rec>>

\* load_sender_key(sender, distribution_id)
LoadSenderKey(p, sender, distribution_id) ==
    /\ \E r \in {LoadSenderKeyCore(store[p], sender, distribution_id)} :
          /\ store' = [store EXCEPT ![p] = r.store]
          /\ lastOp' = [Call("load_sender_key", p, sender) EXCEPT
                          !.status = r.status, !.kind = r.kind,
                          !.distribution_id = distribution_id,
                          !.record = r.record]
    /\ UNCHANGED <<held, net, nextKey, used, delivered, sync, rat, cv, cx, grp, thr, rec>>

\* The names the responder's store is given a sender key under: two
\* senders of one distribution and two distributions of one sender.
FrameSenderKeyNames == { <<"A", UuidText1>>, <<"A", UuidText2>>, <<"B", UuidText1>> }

\* Every store operation that writes, on the responder's store, and one
\* on the initiator's; the two reads of what the store was constructed with.
FrameNext ==
    \/ \E p \in Responders, id \in StoreKeyIds : SavePreKey(p, id)
    \/ \E p \in Responders, id \in StoreKeyIds : RemovePreKey(p, id)
    \/ \E p \in Responders, id \in StoreKeyIds : SaveSignedPreKey(p, id)
    \/ \E p \in Responders, q \in Parties : SaveIdentity(p, q, IdentityOf[q])
    \/ \E p \in Initiators : SaveIdentity(p, Other(p), IdentityOf[Other(p)])
    \/ \E p \in Responders : HoldNewFresh(p)
    \/ \E p \in Responders, q \in Parties : StoreSession(p, q)
    \/ \E p \in Responders : \E n \in FrameSenderKeyNames :
          StoreSenderKey(p, n[1], n[2], <<>>)
    \/ \E p \in Parties : GetIdentityKeyPairCall(p)
    \/ \E p \in Parties : GetLocalRegistrationIdCall(p)

\* store_sender_key and load_sender_key on one store, with every id string.
SenderKeysNext ==
    \/ \E sender \in Parties, text \in DistributionIdStrings, record \in SenderKeyRecords :
          StoreSenderKey("B", sender, text, record)
    \/ \E sender \in Parties, text \in DistributionIdStrings :
          LoadSenderKey("B", sender, text)

(***************************************************************************)
(* A session record through many sessions (SpecRecord)                     *)
(***************************************************************************)

\* The bundles processed: two more than a record keeps archived states, so
\* that the oldest is dropped.
MaxBundles == 42

\* The store of the initiator, the SessionRecord object its caller holds
\* and the number of bundles the store has processed.
RecIdle == [store |-> StoreNew("A"), held |-> None, made |-> 0]

\* SessionRecord.new_fresh(): the caller holds a new record.
RecNewFresh ==
    /\ rec' = [rec EXCEPT !.held = Some(NewFresh)]
    /\ UNCHANGED <<mainVars, rat, cv, cx, grp, thr>>

\* process_prekey_bundle on the store, each call with a base key and a
\* ratchet key of its own: the session stored is archived and the new one
\* promoted.
RecProcessPreKeyBundle ==
    /\ rec.made < MaxBundles
    /\ \E bundle \in GenuineBundlesOf("B") :
          rec' = [rec EXCEPT
                    !.store = ProcessPreKeyBundleCore(@, "B", bundle,
                                                      FreshKey(2 * rec.made + 1),
                                                      FreshKey(2 * rec.made + 2)).store,
                    !.made = @ + 1]
    /\ UNCHANGED <<mainVars, rat, cv, cx, grp, thr>>

\* load_session: the caller holds a copy of the record stored.
RecLoadSession ==
    /\ IsSome(LoadSession(rec.store, "B"))
    /\ rec' = [rec EXCEPT !.held = LoadSession(rec.store, "B")]
    /\ UNCHANGED <<mainVars, rat, cv, cx, grp, thr>>

\* archive_current_state on the record the caller holds.
RecArchiveCurrentState ==
    /\ IsSome(rec.held)
    /\ rec' = [rec EXCEPT !.held = Some(ArchiveCurrentState(Get(@)))]
    /\ UNCHANGED <<mainVars, rat, cv, cx, grp, thr>>

RecordNext ==
    RecNewFresh \/ RecProcessPreKeyBundle \/ RecLoadSession \/ RecArchiveCurrentState

(***************************************************************************)
(* The specifications                                                      *)
(***************************************************************************)

MainInit ==
    /\ store = [p \in Parties |-> StoreNew(p)]
    /\ held = [p \in Parties |-> None]
    /\ sync = [p \in Parties |-> [stale |-> FALSE,
                                  from |-> None]]
    /\ net = {}
    /\ nextKey = 1
    /\ lastOp = OpIdle
    /\ used = {}
    /\ delivered = {}

AsideInit == cx = CxIdle /\ grp = GrpIdle /\ thr = ThrIdle /\ rec = RecIdle

Init == MainInit /\ rat = RatIdle /\ cv = CvIdle /\ AsideInit

Next ==
    \/ \E p \in Responders, id \in PreKeyIds : SavePreKey(p, id)
    \/ \E p \in Responders, id \in PreKeyIds : RemovePreKey(p, id)
    \/ \E p \in Responders, id \in SignedPreKeyIds : SaveSignedPreKey(p, id)
    \/ \E p \in Responders : \E k \in {IdentityOf[Other(p)], IdentityOf.stranger} :
          SaveIdentity(p, Other(p), k)
    \/ \E p \in Responders : StoreSession(p, Other(p))
    \/ \E p \in Initiators : \E b \in BundlesOf(Other(p)) : ProcessPreKeyBundle(p, b)
    \/ \E p \in Responders : \E env \in PreKeyMessagesFor(p), loaded \in BOOLEAN :
          ProcessPreKey(p, env, loaded)
    \/ \E p \in Parties, ptext \in Plaintexts : SealedSenderEncrypt(p, GoodCertificate(p), ptext)
    \/ \E p \in Parties : \E c \in DecryptCalls(p) :
          SealedSenderDecrypt(p, c[1], c[2][1], c[2][2])

Spec == Init /\ [][Next]_vars

RatInit == MainInit /\ cv = CvIdle /\ AsideInit /\ rat \in { [RatIdle EXCEPT !.scenario = Some(sc)] : sc \in RatScenarios }

RatNext == InitializeAliceSession \/ InitializeBobSession

SpecRatchet == RatInit /\ [][RatNext]_vars

CertNext == CertServerNew \/ CertSenderNew \/ CertServerValidate \/ CertSenderValidate

SpecCert == Init /\ [][CertNext]_vars

CodecNext ==
    \/ CxMessageType \/ CxUsmcNew \/ CxMsgType \/ CxBundleNew \/ CxBundlePreKey
    \/ CxSignalMessageNew \/ CxSenderKeyMessageNew \/ CxGenerateNPrekeys
    \/ CxSenderKeyDistributionMessageNew \/ CxPreKeySignalMessageNew
    \/ CxSignalMessageNewAgain \/ CxSenderKeyMessageNewAgain \/ CxSerializedAgain

SpecCodec == Init /\ [][CodecNext]_vars

SpecGroup == Init /\ [][GroupNext]_vars

SpecThreads == Init /\ [][ThreadsNext]_vars

SpecOrder == Init /\ [][OrderNext]_vars

SpecStore == Init /\ [][StoreNext]_vars

SpecRecord == Init /\ [][RecordNext]_vars

SpecFrame == Init /\ [][FrameNext]_vars

SpecSenderKeys == Init /\ [][SenderKeysNext]_vars

(***************************************************************************)
(* Properties of the two initialisations (SpecRatchet)                     *)
(***************************************************************************)

RatBoth == IsSome(rat.scenario) /\ IsSome(rat.alice) /\ IsSome(rat.bob)

\* C1: when Alice is built from Bob's matching public keys (her fifth
\* argument, their_one_time_pre_key, is Bob's one-time prekey) and both
\* initialisations have run, the two records hold the same root key, and
\* the chain key Alice holds for receiving from Bob's ratchet key is the
\* chain key Bob holds for sending.
C1_SymmetricKeys ==
    (RatBoth /\ IsSome(Get(rat.scenario).one_time)
             /\ Get(rat.scenario).fifth = Get(Get(rat.scenario).one_time))
    => /\ GetRootKey(Get(rat.alice)) = GetRootKey(Get(rat.bob))
       /\ IsSome(GetSenderChainKey(Get(rat.bob)))
       /\ GetReceiverChainKey(Get(rat.alice), Get(rat.scenario).ratchet)
            = GetSenderChainKey(Get(rat.bob))

(***************************************************************************)
(* Properties of the certificates (SpecCert)                               *)
(***************************************************************************)

\* The three conditions on a sender certificate, read off how it was built:
\* the server certificate was issued under the trust root given to
\* validate, and the sender certificate was signed with the server
\* certificate's key.
CertIssuedUnderRoot == cv.issuer = cv.root
CertSignedByServer == cv.signed_by = Get(cv.server).key

\* C10 as stated: SenderCertificate.validate succeeds exactly when the
\* server certificate verifies under trust_root, the sender certificate
\* verifies under the server certificate's key, and now is before the
\* expiration.
C10_ExactlyThreeConditions ==
    cv.op = "sender_validate"
    => (cv.result <=> (CertIssuedUnderRoot /\ CertSignedByServer /\ cv.now < CertExpiration))

\* C10, amended: SenderCertificate.validate returns a boolean, and it is
\* true exactly when the server certificate verifies under trust_root and
\* its key id is not the revoked id 0xDEADC357, the sender certificate
\* verifies under the server certificate's key, and now is not later than
\* the expiration.
C10_ValidateExactly ==
    cv.op = "sender_validate"
    => /\ cv.result \in BOOLEAN
       /\ cv.result <=> /\ CertIssuedUnderRoot
                        /\ Get(cv.server).key_id # RevokedServerCertificateKeyId
                        /\ CertSignedByServer
                        /\ cv.now <= CertExpiration

\* A certificate found valid at its very expiration instant.
C10_ValidAtExpiration ==
    cv.op = "sender_validate" /\ cv.result /\ cv.now = CertExpiration

(***************************************************************************)
(* Properties of the calls on the stores (Spec)                            *)
(***************************************************************************)

\* C2: a sealed_sender_decrypt of a ciphertext that sealed_sender_encrypt
\* made of plaintext P, between stores holding matching sessions and with
\* the sender's certificate valid for the trust root and the timestamp,
\* succeeds and returns P; and whatever sealed_sender_decrypt returns is the
\* plaintext the ciphertext was made of.
C2_RoundTrip ==
    lastOp.op = "sealed_sender_decrypt"
    => /\ (lastOp.matching /\ lastOp.root = CertKeys.trust_root /\ lastOp.now <= CertExpiration)
            => (lastOp.status = "ok" /\ lastOp.ptext = lastOp.sent)
       /\ lastOp.status = "ok" => (IsSome(lastOp.ptext) /\ lastOp.ptext = lastOp.sent)

\* A ratchet message decrypted between matching sessions.
C2_Decrypted ==
    /\ lastOp.op = "sealed_sender_decrypt" /\ lastOp.matching /\ lastOp.status = "ok"
    /\ lastOp.msg_type = "Whisper" /\ lastOp.ptext = Some("world")

\* C3: after process_prekey succeeds and returns one-time prekey id K,
\* get_pre_key(K) on the same store fails.
C3_PreKeyRemoved ==
    (lastOp.op = "process_prekey" /\ lastOp.status = "ok" /\ IsSome(lastOp.pre_key))
    => ~IsSome(GetPreKey(store[lastOp.party], Get(lastOp.pre_key)))

\* C4: between two saves of one-time prekey id K, K sets up a session for
\* at most one base key.
C4_AtMostOneSession ==
    \A p \in Parties, id \in PreKeyIds :
        Cardinality({ u \in used : u[1] = p /\ u[2] = id }) <= 1

\* C5: a process_prekey_bundle on a bundle whose signed prekey signature
\* does not verify under the bundle's identity key fails, takes no key from
\* the random generator and leaves the store as it was.
C5_BadSignatureAborts ==
    [][\A p \in Initiators : \A b \in BundlesOf(Other(p)) :
          (/\ ~VerifySignature(b.identity_key, b.signed_pre_key_public,
                               b.signed_pre_key_signature)
           /\ ProcessPreKeyBundle(p, b))
          => (lastOp'.status = "err" /\ store' = store /\ nextKey' = nextKey)]_vars

\* A process_prekey_bundle refused for its signature.
C5_Refused ==
    /\ lastOp.op = "process_prekey_bundle" /\ lastOp.status = "err"
    /\ lastOp.kind = "SignatureValidationFailed"
    /\ ~IsSome(LoadSession(store[lastOp.party], lastOp.addr))

\* C6: after process_prekey, process_prekey_bundle, sealed_sender_encrypt or
\* sealed_sender_decrypt returns successfully for an address, load_session
\* for that address returns the record the call left.
C6_Persisted ==
    (/\ lastOp.status = "ok"
     /\ lastOp.op \in {"process_prekey", "process_prekey_bundle", "sealed_sender_encrypt",
                       "sealed_sender_decrypt"})
    => LoadSession(store[lastOp.party], lastOp.addr) = lastOp.record

\* C7: the error a failed process_prekey or process_prekey_bundle raises
\* carries the text of the failure it ended with, so that two failure kinds
\* raise two different errors.
C7_ErrorKept ==
    (lastOp.op \in {"process_prekey", "process_prekey_bundle"} /\ lastOp.status = "err")
    => lastOp.text = NewErr(lastOp.kind)

\* C8: a sealed_sender_decrypt of a sender-key envelope whose certificate
\* is valid for the trust root and the timestamp returns a result.
C8_SenderKeyDispatched ==
    (/\ lastOp.op = "sealed_sender_decrypt" /\ lastOp.msg_type = "SenderKey"
     /\ SenderValidate(Get(lastOp.cert), lastOp.root, lastOp.now))
    => lastOp.status = "ok"

\* C9: sealed_sender_decrypt returns a result only for an envelope whose
\* certificate the server signed under the trust root given to the call and
\* which has not expired at the timestamp given; with another trust root,
\* a later timestamp or another signature the call fails and returns no
\* plaintext.
C9_OnlyValidated ==
    lastOp.op = "sealed_sender_decrypt"
    => /\ lastOp.status = "ok"
            => /\ Get(lastOp.cert) = GoodCertificate(lastOp.addr)
               /\ lastOp.root = CertKeys.trust_root
               /\ lastOp.now <= CertExpiration
       /\ (\/ Get(lastOp.cert) # GoodCertificate(lastOp.addr)
           \/ lastOp.root # CertKeys.trust_root
           \/ lastOp.now > CertExpiration)
            => (lastOp.status = "err" /\ lastOp.ptext = None)

\* A prekey message decrypted under a certificate that validates.
C9_Returned ==
    /\ lastOp.op = "sealed_sender_decrypt" /\ lastOp.status = "ok"
    /\ lastOp.msg_type = "PreKey" /\ IsSome(lastOp.ptext)
    /\ SenderValidate(Get(lastOp.cert), lastOp.root, lastOp.now)

(***************************************************************************)
(* Properties of the message objects (SpecCodec)                           *)
(***************************************************************************)

\* C11: the number message_type() reports for a sender-key message is a
\* number UnidentifiedSenderMessageContent accepts, and accepts as a
\* sender-key message, and it is the number msg_type() of that content
\* reports back.
C11_OneSenderKeyValue ==
    (cx.variant = "SenderKey" /\ cx.op \in {"usmc_new", "msg_type"} /\ cx.fed = cx.value) =>
        /\ cx.status = "ok"
        /\ Get(cx.usmc).type = "SenderKey"
        /\ (cx.op = "msg_type" => cx.reported = cx.value)

\* A sender-key message's type was asked, the content built with it and the
\* content's type asked back.
C11_SenderKeyReported ==
    /\ cx.op = "msg_type" /\ cx.variant = "SenderKey"
    /\ cx.fed = cx.value /\ cx.reported = cx.value

\* The numbers the comment on message_type and the spec give the variants.
DocumentedMessageType == [PreKey |-> 3,
                          Whisper |-> 2,
                          SenderKey |-> 4]

\* C12: message_type() returns 2 for a ratchet message, 3 for a prekey
\* message and 4 for a sender-key message (a sender-key distribution
\* message is no CiphertextMessage and has no message_type to return 5).
C12_DocumentedValues ==
    cx.op = "message_type" => cx.value = Some(DocumentedMessageType[cx.variant])

\* C13: a PreKeyBundle built with pre_key_public absent is built, and its
\* pre_key_public() and pre_key_id() report absent.
C13_BundleWithoutPreKey ==
    (cx.op = "bundle_new" /\ cx.given = Some(None)) =>
        /\ cx.status = "ok"
        /\ BundlePreKeyPublic(Get(cx.bundle)) = None
        /\ BundlePreKeyId(Get(cx.bundle)) = None

(***************************************************************************)
(* Properties of the sender-key chain (SpecGroup)                          *)
(***************************************************************************)

GroupDecryptCalled == grp.last.op = "group_decrypt"
GivenIteration == Get(grp.last.given).iteration

\* C14: the sender's stored chain stands at the number of messages built so
\* far; the k-th group_encrypt finds it at k-1, builds a message of
\* iteration k-1 and leaves it at k; no two messages carry one iteration.
C14_ChainAdvancesByOne ==
    /\ IsSome(FrontIteration(grp.stores["S"])) =>
           FrontIteration(grp.stores["S"]) = Some(grp.encrypts)
    /\ (grp.last.op = "group_encrypt" /\ grp.last.status = "ok") =>
           /\ Get(grp.last.msg).iteration = grp.encrypts - 1
           /\ grp.last.before = Some(grp.encrypts - 1)
           /\ grp.last.after = Some(grp.encrypts)
    /\ \A m1, m2 \in grp.msgs : m1.iteration = m2.iteration => m1 = m2

\* The third group_encrypt built the message of iteration 2.
C14_ThirdMessage ==
    /\ grp.last.op = "group_encrypt" /\ grp.last.status = "ok"
    /\ grp.encrypts = 3 /\ Get(grp.last.msg).iteration = 2

\* C15: a message that a group_decrypt has decrypted fails on every later
\* delivery, and the failed call leaves the stored record as it was.
C15_DecryptedOnce ==
    (GroupDecryptCalled /\ grp.last.replay) =>
        /\ grp.last.status = "err"
        /\ grp.last.ptext = None
        /\ grp.last.unchanged

\* Iteration 0 delivered again after the chain has passed iteration 2.
C15_ReplayedAfterLater ==
    /\ GroupDecryptCalled /\ grp.last.replay
    /\ GivenIteration = 0 /\ IsSome(grp.last.before) /\ Get(grp.last.before) >= 3
    /\ grp.last.kind = "DuplicatedMessage"

\* Whether a successful group_decrypt has stepped over the iteration, and
\* how many iterations after it have been stepped over.
WasSkipped(i) == \E run \in grp.skipped : run[1] <= i /\ i < run[2]
RECURSIVE SkippedAfter(_, _)
SkippedAfter(runs, i) ==
    IF runs = {} THEN 0
    ELSE LET run == CHOOSE r \in runs : TRUE
             from == IF run[1] > i THEN run[1] ELSE i + 1
         IN  (IF run[2] > from THEN run[2] - from ELSE 0) + SkippedAfter(runs \ {run}, i)

\* The message delivered is one the sender built, delivered for the first
\* time, of an iteration the receiver stepped over before.
SkippedDelivered ==
    /\ GroupDecryptCalled /\ grp.last.signed /\ ~grp.last.replay
    /\ WasSkipped(GivenIteration)

GroupDecryptedRight ==
    /\ grp.last.status = "ok"
    /\ grp.last.ptext = Some(Get(grp.last.given).ciphertext.pt)

\* C16 as claimed: every iteration stepped over stays decryptable when its
\* message arrives later.
C16_SkippedStaysDecryptable == SkippedDelivered => GroupDecryptedRight

\* C16: a message at most MaxForwardJumps ahead of the stored position is
\* decrypted and leaves the chain one past its iteration; an iteration
\* stepped over, with fewer than MaxMessageKeys iterations stepped over after
\* it, is decrypted when its message arrives, and once only.
C16_FastForward ==
    /\ (/\ GroupDecryptCalled /\ grp.last.signed /\ IsSome(grp.last.before)
        /\ GivenIteration >= Get(grp.last.before)
        /\ GivenIteration - Get(grp.last.before) <= MaxForwardJumps) =>
           GroupDecryptedRight /\ grp.last.after = Some(GivenIteration + 1)
    /\ (SkippedDelivered /\ SkippedAfter(grp.skipped, GivenIteration) < MaxMessageKeys) =>
           GroupDecryptedRight
    /\ (GroupDecryptCalled /\ grp.last.replay) => grp.last.status = "err"

\* Iteration 0 decrypted after a later message had stepped over it.
C16_SkippedDecrypted ==
    /\ SkippedDelivered /\ GroupDecryptedRight
    /\ GivenIteration = 0 /\ Get(grp.last.before) >= 3

\* C17: group_decrypt returns plaintext only for a message whose signature
\* verifies under the signing key stored for its chain; any other message
\* fails, returns nothing and leaves the stored record as it was.
C17_SignatureFirst ==
    /\ (GroupDecryptCalled /\ grp.last.status = "ok") => grp.last.signed
    /\ (GroupDecryptCalled /\ ~grp.last.signed) =>
           /\ grp.last.status = "err"
           /\ grp.last.ptext = None
           /\ grp.last.unchanged

\* A message of the sender's chain signed by another key was refused by a
\* receiver that holds the chain.
C17_BadSignatureRefused ==
    /\ GroupDecryptCalled /\ IsSome(grp.last.before)
    /\ Get(grp.last.given).signature.by = ForgerKey
    /\ grp.last.kind = "SignatureValidationFailed"
    /\ grp.last.unchanged

(***************************************************************************)
(* Properties of out-of-order delivery (SpecOrder)                         *)
(***************************************************************************)

\* The state of a record that was set up under the base key.
SessionStateOf(record, baseKey) ==
    IF IsSome(record.current) /\ Get(record.current).alice_base_key = baseKey
    THEN Get(record.current)
    ELSE record.previous[Min({ i \in 1..Len(record.previous) :
                                  record.previous[i].alice_base_key = baseKey })]

\* p holds the session of env and, in it, the receiving chain of env's
\* ratchet key.
HoldsChain(p, env) ==
    /\ HoldsSession(store[p], env.cert.uuid, env.origin.base)
    /\ IsSome(FindChain(SessionStateOf(Get(LoadSession(store[p], env.cert.uuid)),
                                       Get(env.origin.base)).receiver_chains,
                        Get(env.msg).ratchet))
ChainOf(p, env) ==
    Get(FindChain(SessionStateOf(Get(LoadSession(store[p], env.cert.uuid)),
                                 Get(env.origin.base)).receiver_chains,
                  Get(env.msg).ratchet))

\* How far env's counter is ahead of the receiving chain (negative: behind).
Ahead(p, env) == Get(env.msg).counter - ChainOf(p, env).chain.idx
KeyCached(p, env) == SkippedAt(ChainOf(p, env), Get(env.msg).counter) # {}

(***************************************************************************)
(* Properties of concurrent calls on one key (SpecThreads)                 *)
(***************************************************************************)

\* The message counter and the chain of a sealed ciphertext.
CounterOf(env) == <<Get(env.msg).ratchet, Get(env.msg).counter>>

\* The index the initiator's sending chain for the responder stands at.
SendingIndex ==
    Get(Get(Get(LoadSession(store["A"], "B")).current).sender_chain).chain.idx

\* C20: the calls of all threads on one key take effect one whole call
\* after the other.  Of the group_encrypt calls no two read the same stored
\* record, no two messages carry the same iteration, and the stored chain
\* has moved one step for every record written.  Of the
\* sealed_sender_encrypt and sealed_sender_decrypt calls for one address no
\* two of the same function read the same stored session, no two
\* ciphertexts carry the same counter of the same chain, the sending chain
\* has moved one step for every ciphertext sealed, no ciphertext was
\* decrypted twice, and the stored session has used the key of every
\* ciphertext decrypted.  So no update is lost; and no two threads are
\* inside a function at once.
C20_WholeSteps ==
    /\ \A a, b \in thr.reads : a.record = b.record => a = b
    /\ \A a, b \in thr.emitted : a.msg.iteration = b.msg.iteration => a = b
    /\ IsSome(FrontIteration(thr.store)) => FrontIteration(thr.store) = Some(thr.stores)
    /\ \A a, b \in thr.sessionReads : (a.op = b.op /\ a.record = b.record) => a = b
    /\ \A a, b \in thr.sealed : CounterOf(a.env) = CounterOf(b.env) => a = b
    /\ IsSome(LoadSession(store["A"], "B")) => SendingIndex = thr.seals
    /\ Cardinality(thr.opened) = thr.opens
    /\ \A env \in thr.opened :
          HoldsChain("B", env) /\ Ahead("B", env) < 0 /\ ~KeyCached("B", env)
    /\ \A t, u \in Threads : (thr.pc[t] # "idle" /\ thr.pc[u] # "idle") => t = u

\* Both threads have finished a group_encrypt on the same key, a
\* sealed_sender_encrypt for the same address and a sealed_sender_decrypt
\* of a ciphertext from the same address.
C20_BothEncrypted ==
    /\ \E a, b \in thr.emitted : a.thread # b.thread
    /\ \E a, b \in thr.sealed : a.thread # b.thread
    /\ \E a, b \in thr.sessionReads :
          a.op = "sealed_sender_decrypt" /\ b.op = "sealed_sender_decrypt"
          /\ a.thread # b.thread
    /\ \A t \in Threads : thr.pc[t] = "idle"

\* The call now returning failed with the error kind and left p's sessions
\* as they were.
Refused(p, kinds) ==
    /\ lastOp'.status = "err" /\ lastOp'.kind \in kinds /\ lastOp'.ptext = None
    /\ store'[p].sessions = store[p].sessions

OrderDecrypt(p, env) == SealedSenderDecrypt(p, env, CertKeys.trust_root, CertExpiration)

\* The error kinds of a replay or an ordering violation.
ReplayOrOrderingKinds == {"DuplicatedMessage"}

\* C18 as stated: a ciphertext of the session whose counter is further
\* ahead of the receiving chain than the skipped-key cache holds keys fails
\* with a replay or ordering violation and leaves the sessions unchanged.
C18_BeyondCacheFails ==
    [][\A env \in SessionEnvelopes("B") :
          (OrderDecrypt("B", env) /\ HoldsChain("B", env) /\ Ahead("B", env) > MaxMessageKeys)
          => Refused("B", ReplayOrOrderingKinds)]_vars

\* The error kinds of a key or a session the receiver does not have.
UnknownKeyOrSessionKinds == {"SessionNotFound", "InvalidPreKeyId", "InvalidSignedPreKeyId"}

\* C19: when a ciphertext would decrypt, the same ciphertext with its body
\* changed (so that its MAC no longer verifies) fails: no plaintext is
\* returned, the sessions stored are the ones stored before, and the error
\* is InvalidMessage, not one of the kinds of an unknown key or a missing
\* session.
C19_BadMacRefused ==
    [][\A env \in SessionEnvelopes("B") :
          (/\ OrderDecrypt("B", Tampered(env))
           /\ SealedSenderDecryptCore(store["B"], "B", env, CertKeys.trust_root,
                                      CertExpiration, FreshKey(nextKey)).status = "ok")
          => /\ Refused("B", {"InvalidMessage"})
             /\ lastOp'.kind \notin UnknownKeyOrSessionKinds]_vars

\* A tampered ciphertext was refused by a receiver that holds the session,
\* and the genuine ciphertext still decrypts.
C19_TamperedRefused ==
    /\ lastOp.op = "sealed_sender_decrypt" /\ lastOp.status = "err"
    /\ lastOp.kind = "InvalidMessage" /\ lastOp.sent = None
    /\ \E env \in SentTo("B") :
          /\ HoldsSession(store["B"], "A", env.origin.base)
          /\ SealedSenderDecryptCore(store["B"], "B", env, CertKeys.trust_root,
                                     CertExpiration, FreshKey(nextKey)).status = "ok"

(***************************************************************************)
(* Properties of the store's own calls (SpecStore)                         *)
(***************************************************************************)

\* C21: save_identity stores the key for the address, succeeds, and answers
\* "changed" exactly when another key was stored for the address before:
\* not when none was stored, and not when the same key was.
C21_ChangedExactly ==
    [][\A p \in Responders : \A k \in {IdentityOf[Other(p)], IdentityOf.stranger} :
          SaveIdentity(p, Other(p), k)
          => /\ lastOp'.status = "ok"
             /\ store'[p].identities[Other(p)] = Some(k)
             /\ (lastOp'.text = "changed")
                    <=> (/\ store[p].identities[Other(p)] # None
                         /\ store[p].identities[Other(p)] # Some(k))]_vars

\* save_identity has replaced the key stored for the address.
C21_IdentityReplaced ==
    /\ lastOp.op = "save_identity" /\ lastOp.status = "ok" /\ lastOp.text = "changed"
    /\ store[lastOp.party].identities[lastOp.addr] = Some(IdentityOf.stranger)

\* The calls that store a session.
SessionStoringOps == {"process_prekey_bundle"}

\* C22: an address has no session until a call stores one, and load_session
\* of an address without a session succeeds and returns None.
C22_AbsentNotError ==
    [][/\ \A p \in Parties, q \in Parties :
             (store[p].sessions[q] = None /\ store'[p].sessions[q] # None)
             => /\ lastOp'.op \in SessionStoringOps /\ lastOp'.status = "ok"
                /\ lastOp'.party = p /\ lastOp'.addr = q
       /\ \A p \in Parties, q \in Parties :
             (LoadSessionCall(p, q) /\ store[p].sessions[q] = None)
             => lastOp'.status = "ok" /\ lastOp'.record = None]_vars

\* load_session returned None for one address of a store that holds a
\* session for another.
C22_AbsentBesideStored ==
    /\ lastOp.op = "load_session" /\ lastOp.status = "ok" /\ lastOp.record = None
    /\ lastOp.addr = lastOp.party
    /\ store[lastOp.party].sessions[Other(lastOp.party)] # None

\* C23: remove_pre_key of an id that is not in the store succeeds and leaves
\* every store as it was.
C23_RemoveMissing ==
    [][\A p \in Responders, id \in PreKeyIds :
          (RemovePreKey(p, id) /\ store[p].pre_keys[id] = None)
          => lastOp'.status = "ok" /\ store' = store]_vars

\* remove_pre_key was called on a store from which the id had already been
\* removed, other entries being present.
C23_RemovedTwice ==
    /\ lastOp.op = "remove_pre_key" /\ lastOp.status = "ok"
    /\ store[lastOp.party].pre_keys = [i \in StoreKeyIds |-> None]
    /\ \E i \in SignedPreKeyIds : store[lastOp.party].signed_pre_keys[i] # None

(***************************************************************************)
(* Properties of serialization (SpecCodec)                                 *)
(***************************************************************************)

CxBuiltTwice ==
    /\ cx.op \in {"signal_message_new", "sender_key_message_new"} /\ cx.status = "ok"
    /\ IsSome(cx.second)

ReceiverChainsOf(record) == Get(record.current).receiver_chains

\* C25 as stated: Alice's record has a sending chain and no receiving
\* chain, Bob's a receiving chain and no sending chain.
C25_SendingOnlyReceivingOnly ==
    /\ IsSome(rat.alice) =>
           HasSenderChain(Get(rat.alice)) /\ ReceiverChainsOf(Get(rat.alice)) = <<>>
    /\ IsSome(rat.bob) =>
           ~HasSenderChain(Get(rat.bob)) /\ ReceiverChainsOf(Get(rat.bob)) # <<>>

\* C25: right after bootstrap Alice's record has a sending chain and one
\* receiving chain, the one for the ratchet key she was given for Bob;
\* Bob's record has a
\* sending chain under his ratchet key and no receiving chain.
C25_ChainsAfterBootstrap ==
    /\ IsSome(rat.alice) =>
           /\ HasSenderChain(Get(rat.alice))
           /\ Len(ReceiverChainsOf(Get(rat.alice))) = 1
           /\ IsSome(GetReceiverChainKey(Get(rat.alice),
                                          RatAliceParameters(Get(rat.scenario)).their_ratchet_key))
    /\ IsSome(rat.bob) =>
           /\ HasSenderChain(Get(rat.bob))
           /\ Get(Get(Get(rat.bob).current).sender_chain).ratchet = Get(rat.scenario).ratchet
           /\ ReceiverChainsOf(Get(rat.bob)) = <<>>

\* Both records have been initialised.
C25_BothBootstrapped == RatBoth /\ HasSenderChain(Get(rat.bob))

(***************************************************************************)
(* Properties of the stored sender-key chain (SpecGroup)                   *)
(***************************************************************************)

ProcessedAgain ==
    /\ grp.last.op = "process_sender_key_distribution_message"
    /\ IsSome(grp.last.before)

\* C26: processing a distribution message for a chain the store already
\* holds leaves the chain where it stands, and a message decrypted before
\* the distribution message was processed again still fails afterwards.
C26_StoredOnce ==
    /\ ProcessedAgain => grp.last.status = "ok" /\ grp.last.after = grp.last.before
    /\ (GroupDecryptCalled /\ Get(grp.last.given) \in grp.reprocessed) =>
           /\ grp.last.status = "err"
           /\ grp.last.ptext = None
           /\ grp.last.unchanged

\* A message decrypted before the distribution message was processed again
\* was delivered again and refused as a duplicate.
C26_ReplayAfterProcessing ==
    /\ GroupDecryptCalled /\ Get(grp.last.given) \in grp.reprocessed
    /\ grp.last.kind = "DuplicatedMessage"

\* The message delivered is signed for the chain the receiver holds and
\* further ahead of it than MaxForwardJumps.
TooFarAhead ==
    /\ GroupDecryptCalled /\ grp.last.signed /\ IsSome(grp.last.before)
    /\ GivenIteration - Get(grp.last.before) > MaxForwardJumps

\* C27: a message further ahead of the stored position than
\* MaxForwardJumps fails as InvalidMessage, returns nothing and leaves the
\* stored record as it was: no key is derived and the chain does not move.
C27_ExcessiveJumpRefused ==
    TooFarAhead =>
        /\ grp.last.status = "err" /\ grp.last.kind = "InvalidMessage"
        /\ grp.last.ptext = None
        /\ grp.last.unchanged /\ grp.last.after = grp.last.before

\* A message MaxForwardJumps + 1 ahead of the stored position was refused.
C27_JumpRefused ==
    /\ TooFarAhead /\ grp.last.status = "err"
    /\ GivenIteration - Get(grp.last.before) = MaxForwardJumps + 1

(***************************************************************************)
(* Properties of the chains of a session (SpecOrder, Spec)                 *)
(***************************************************************************)

\* The states of a record, current and archived, and the receiving chains
\* of every session a store holds.
StatesOf(record) ==
    (IF IsSome(record.current) THEN {Get(record.current)} ELSE {})
        \cup { record.previous[i] : i \in 1..Len(record.previous) }
ReceivingChains(st) ==
    UNION { UNION { { state.receiver_chains[i] : i \in 1..Len(state.receiver_chains) } :
                    state \in StatesOf(Get(st.sessions[q])) } :
            q \in { r \in DOMAIN st.sessions : IsSome(st.sessions[r]) } }

\* The cache of every receiving chain holds at most MaxMessageKeys keys.
CachesWithinMaximum ==
    \A p \in Parties : \A chain \in ReceivingChains(store[p]) :
        Len(chain.skipped) <= MaxMessageKeys

\* The gap between the receiving chain and env's counter holds more keys
\* than the cache has room for.
GapPastMaximum(p, env) ==
    /\ Ahead(p, env) >= 0
    /\ Len(ChainOf(p, env).skipped) + Ahead(p, env) > MaxMessageKeys

\* C28 as stated: the cache of every receiving chain holds at most
\* MaxMessageKeys keys in every reachable state, and a ciphertext whose gap
\* would push the cache of its receiving chain past MaxMessageKeys makes
\* the decrypt fail.
C28_GapPastMaximumFails ==
    /\ []CachesWithinMaximum
    /\ [][\A env \in SessionEnvelopes("B") :
            (OrderDecrypt("B", env) /\ HoldsChain("B", env) /\ GapPastMaximum("B", env))
            => lastOp'.status = "err"]_vars

\* The counters of a store: for every session, state, and chain of it (the
\* sending chain and each receiving chain, named by its ratchet key), the
\* index of the chain key.
ChainCounters(st) ==
    UNION { UNION {
        (IF IsSome(state.sender_chain)
         THEN { <<q, state.alice_base_key, "sending", Get(state.sender_chain).ratchet,
                  Get(state.sender_chain).chain.idx>> }
         ELSE {})
        \cup { <<q, state.alice_base_key, "receiving", state.receiver_chains[i].ratchet,
                 state.receiver_chains[i].chain.idx>> :
               i \in 1..Len(state.receiver_chains) } :
        state \in StatesOf(Get(st.sessions[q])) } :
        q \in { r \in DOMAIN st.sessions : IsSome(st.sessions[r]) } }
SameChain(a, b) == a[1] = b[1] /\ a[2] = b[2] /\ a[3] = b[3] /\ a[4] = b[4]

\* C29: over an encrypt or a decrypt call, successful or failed, no chain of
\* any session (the sending chain and each receiving chain, as long as it
\* is the chain of the same ratchet key) has its counter decreased, and a
\* failed call leaves every counter of the caller as it was.
C29_CountersNeverDecrease ==
    [][lastOp'.op \in {"sealed_sender_encrypt", "sealed_sender_decrypt"}
       => \A p \in Parties :
            /\ \A a \in ChainCounters(store[p]), b \in ChainCounters(store'[p]) :
                  SameChain(a, b) => b[5] >= a[5]
            /\ lastOp'.status = "err"
                  => ChainCounters(store'[p]) = ChainCounters(store[p])]_vars

\* A call failed for a party whose session has sent and received: a sending
\* chain and a receiving chain of it are past their first counter.
C29_FailedAfterProgress ==
    /\ lastOp.op \in {"sealed_sender_encrypt", "sealed_sender_decrypt"}
    /\ lastOp.status = "err"
    /\ \E a \in ChainCounters(store[lastOp.party]), b \in ChainCounters(store[lastOp.party]) :
          /\ a[3] = "sending" /\ a[5] > 0
          /\ b[3] = "receiving" /\ b[5] > 0

(***************************************************************************)
(* Properties of the session record (SpecRecord)                           *)
(***************************************************************************)

\* The records of the scenario: the one stored and the one held.
RecRecords ==
    (IF IsSome(LoadSession(rec.store, "B")) THEN {Get(LoadSession(rec.store, "B"))} ELSE {})
        \cup (IF IsSome(rec.held) THEN {Get(rec.held)} ELSE {})

\* A record has at most one current state and at most
\* ArchivedStatesMaxLength archived ones.
RecordWithinBounds ==
    \A record \in RecRecords :
        Len(record.current) <= 1 /\ Len(record.previous) <= ArchivedStatesMaxLength

\* C30: a record has at most one current state in every reachable state and
\* never more than ArchivedStatesMaxLength archived states; new_fresh() has
\* no current state and no archived one; archive_current_state() leaves no
\* current state (has_sender_chain() is false), puts the state that was
\* current in front of the archived ones, which keep their order, the
\* oldest dropped when they were ArchivedStatesMaxLength already, and
\* changes nothing in a record without a current state.
C30_OneCurrentBoundedArchive ==
    /\ []RecordWithinBounds
    /\ [][RecNewFresh => Get(rec'.held).current = None /\ Get(rec'.held).previous = <<>>]_vars
    /\ [][RecArchiveCurrentState =>
            LET before == Get(rec.held)
                after == Get(rec'.held)
            IN  /\ after.current = None /\ ~HasSenderChain(after)
                /\ ~IsSome(before.current) => after = before
                /\ IsSome(before.current) =>
                      /\ after.previous[1] = Get(before.current)
                      /\ Len(after.previous)
                            = IF Len(before.previous) < ArchivedStatesMaxLength
                              THEN Len(before.previous) + 1 ELSE ArchivedStatesMaxLength
                      /\ \A i \in 2..Len(after.previous) :
                            after.previous[i] = before.previous[i - 1]]_vars

\* The record held has no current state and ArchivedStatesMaxLength
\* archived ones, the newest of them set up by the last bundle processed
\* and the first session no longer among them.
C30_OldestEvicted ==
    /\ IsSome(rec.held) /\ rec.made = ArchivedStatesMaxLength + 1
    /\ Get(rec.held).current = None /\ ~HasSenderChain(Get(rec.held))
    /\ Len(Get(rec.held).previous) = ArchivedStatesMaxLength
    /\ Get(rec.held).previous[1].alice_base_key = FreshKey(2 * rec.made - 1)
    /\ \A i \in 1..ArchivedStatesMaxLength :
          Get(rec.held).previous[i].alice_base_key # FreshKey(1)

(***************************************************************************)
(* Properties of the store called key by key (SpecFrame)                   *)
(***************************************************************************)

\* Over the step, nothing but the entry of the map under the key changes in
\* p's store, and nothing at all in the other stores.
OnlyEntryChanges(p, map, key) ==
    /\ \A q \in Parties \ {p} : store'[q] = store[q]
    /\ GetIdentityKeyPair(store'[p]) = GetIdentityKeyPair(store[p])
    /\ GetLocalRegistrationId(store'[p]) = GetLocalRegistrationId(store[p])
    /\ \A a \in Parties :
          \/ map = "identities" /\ a = key
          \/ store'[p].identities[a] = store[p].identities[a]
    /\ \A a \in Parties :
          \/ map = "sessions" /\ a = key
          \/ store'[p].sessions[a] = store[p].sessions[a]
    /\ \A i \in StoreKeyIds :
          \/ map = "pre_keys" /\ i = key
          \/ store'[p].pre_keys[i] = store[p].pre_keys[i]
    /\ \A i \in StoreKeyIds :
          \/ map = "signed_pre_keys" /\ i = key
          \/ store'[p].signed_pre_keys[i] = store[p].signed_pre_keys[i]
    /\ \A n \in SenderKeyNames :
          \/ map = "sender_keys" /\ n = key
          \/ store'[p].sender_keys[n] = store[p].sender_keys[n]

\* What each store was constructed with is what it holds.
ConstructedKept ==
    \A p \in Parties :
        /\ GetIdentityKeyPair(store[p]) = IdentityOf[p]
        /\ GetLocalRegistrationId(store[p]) = RegistrationOf[p]

\* C31: store_session, save_identity, save_pre_key, remove_pre_key,
\* save_signed_pre_key and store_sender_key change nothing but the entry
\* under their own key in their own store: every other entry of that store
\* and every entry of the other store stay as they were; and after any
\* sequence of operations get_identity_key_pair and
\* get_local_registration_id return what the store was constructed with.
C31_OnlyOwnEntry ==
    /\ []ConstructedKept
    /\ [][/\ \A p \in Parties, q \in Parties :
               StoreSession(p, q) => OnlyEntryChanges(p, "sessions", q)
          /\ \A p \in Parties, q \in Parties, k \in {IdentityOf[r] : r \in Parties} :
               SaveIdentity(p, q, k) => OnlyEntryChanges(p, "identities", q)
          /\ \A p \in Parties, id \in StoreKeyIds :
               /\ SavePreKey(p, id) => OnlyEntryChanges(p, "pre_keys", id)
               /\ RemovePreKey(p, id) => OnlyEntryChanges(p, "pre_keys", id)
               /\ SaveSignedPreKey(p, id) => OnlyEntryChanges(p, "signed_pre_keys", id)
          /\ lastOp'.op = "store_sender_key" =>
               \A p \in Parties, sender \in Parties, record \in SenderKeyRecords :
                  \A uuid \in {UuidParse(lastOp'.distribution_id)} :
                     StoreSenderKey(p, sender, lastOp'.distribution_id, record) =>
                        IF IsSome(uuid)
                        THEN OnlyEntryChanges(p, "sender_keys", <<sender, Get(uuid)>>)
                        ELSE store' = store
          /\ \A p \in Parties :
               /\ GetIdentityKeyPairCall(p)
                     => lastOp'.returned = Some(IdentityOf[p]) /\ store' = store
               /\ GetLocalRegistrationIdCall(p)
                     => lastOp'.returned = Some(RegistrationOf[p]) /\ store' = store]_vars

\* get_identity_key_pair returned the key pair given at construction from a
\* store every map of which holds an entry and, where it has two keys,
\* lacks another, while the other store holds an entry too.
C31_ReadAfterWrites ==
    /\ lastOp.op = "get_identity_key_pair" /\ lastOp.party = "B"
    /\ lastOp.returned = Some(IdentityOf["B"])
    /\ IsSome(store["B"].identities["A"]) /\ ~IsSome(store["B"].identities["B"])
    /\ IsSome(store["B"].sessions["A"]) /\ ~IsSome(store["B"].sessions["B"])
    /\ IsSome(store["B"].pre_keys[2]) /\ ~IsSome(store["B"].pre_keys[1])
    /\ IsSome(store["B"].signed_pre_keys[1]) /\ ~IsSome(store["B"].signed_pre_keys[2])
    /\ \E n \in SenderKeyNames, m \in SenderKeyNames :
          IsSome(store["B"].sender_keys[n]) /\ ~IsSome(store["B"].sender_keys[m])
    /\ IsSome(store["A"].identities["B"])

(***************************************************************************)
(* Properties of the prekey batch and of the envelope's type (SpecCodec)   *)
(***************************************************************************)

\* C32: generate_n_prekeys(n, id) returns n records, the k-th with the id
\* id + k - 1, all ids distinct, also when id + n reaches or passes 2^32.
C32_BatchOfConsecutiveIds ==
    cx.op = "generate_n_prekeys" =>
        LET n == Get(cx.given)[1]
            id == Get(cx.given)[2]
        IN  /\ cx.status = "ok"
            /\ Len(cx.generated) = n
            /\ \A k \in 1..n : cx.generated[k].id = WidePlus(id, k - 1)
            /\ \A j \in 1..n, k \in 1..n :
                  j # k => cx.generated[j].id # cx.generated[k].id

\* C33: UnidentifiedSenderMessageContent.new builds a content exactly for
\* the type values 2, 3 and 7; for every other value it fails with the
\* error "unknown message type" and builds nothing; and msg_type() of a
\* content built reports the value it was built with.
C33_AcceptsTwoThreeSeven ==
    /\ cx.op = "usmc_new" =>
          /\ cx.status = "ok" <=> Get(cx.fed) \in {2, 3, 7}
          /\ cx.status = "ok" => IsSome(cx.usmc)
          /\ cx.status # "ok" =>
                cx.status = "err" /\ cx.text = "unknown message type" /\ cx.usmc = None
    /\ cx.op = "msg_type" => cx.reported = cx.fed

\* msg_type() reported 7 for a content built with 7 out of a message that
\* is no sender-key message.
C33_SevenReported ==
    /\ cx.op = "msg_type" /\ cx.fed = Some(7) /\ cx.reported = Some(7)
    /\ cx.variant # "SenderKey"

(***************************************************************************)
(* Properties of the sender-key store (SpecSenderKeys)                     *)
(***************************************************************************)

\* C34: store_sender_key and load_sender_key given a distribution id that
\* is no UUID end with an error returned to the caller and leave the store
\* as it was; given a UUID, load_sender_key returns the record stored last
\* under that address and distribution id, and absent when none was.
C34_MalformedIdReturnsError ==
    [][\A sender \in Parties, text \in DistributionIdStrings :
          /\ \A record \in SenderKeyRecords :
                (StoreSenderKey("B", sender, text, record) /\ ~IsSome(UuidParse(text)))
                => lastOp'.status = "err" /\ store' = store
          /\ LoadSenderKey("B", sender, text) =>
                /\ store' = store
                /\ ~IsSome(UuidParse(text)) => lastOp'.status = "err"
                /\ IsSome(UuidParse(text)) =>
                      /\ lastOp'.status = "ok"
                      /\ lastOp'.record
                            = store["B"].sender_keys[<<sender, Get(UuidParse(text))>>]]_vars

====
